---- MODULE Spec2Model ----
(***************************************************************************)
(* Verification model of the code-review-service core:                     *)
(*   app/graph/store.py          GraphStore                                *)
(*   app/graph/retrieval.py      RelevantContextFinder                     *)
(*   app/graph/python_builder.py PythonGraphBuilder                        *)
(*   app/ast_/python_differ.py   PythonSemanticDiffer                      *)
(*                                                                         *)
(* Strings that the code only compares for equality are TLA+ strings.      *)
(* Scores are floats in the code; here they are integers in units of       *)
(* 1/ScoreScale, which represents every weight, quotient and bonus the     *)
(* default configuration can produce exactly.                              *)
(***************************************************************************)
EXTENDS Integers, Sequences, FiniteSets, TLC

VARIABLES
    store,        \* the GraphStore under construction or in use
    inserted,     \* history: edges (src, dst, type) add_edge accepted
    last_call,    \* history: the last GraphStore call and how it ended
    ops,          \* history: number of GraphStore calls made
    find_in,      \* arguments of the last RelevantContextFinder.find call
    find_scores,  \* history: its scores dict when the BFS loop ended
    find_out,     \* its return value
    repo,         \* the head worktree: path -> parsed tree
    pending,      \* the files PythonGraphBuilder.build has yet to visit
    diff_in,      \* arguments of the last PythonSemanticDiffer.diff call
    diff_out,     \* its return value
    asm_in,       \* arguments of the last ContextAssembler.assemble call
    asm_out,      \* the ReviewUnit it returned
    parse_in,     \* argument of the last _parse_findings_from_response call
    parse_out,    \* the findings it returned
    pl,           \* run_pipeline: its position, locals, LLM calls made and outcome
    now,          \* time.monotonic(), in ticks
    client,       \* the LangChainChatClient the tasks share
    tasks,        \* task -> its position in complete / complete_stream and what it saw
    requests,     \* history: the requests sent to the model, in order
    ex_in,        \* argument of the last PythonSymbolExtractor.extract call
    ex_out,       \* the symbols it returned
    worktrees     \* the base and head worktrees run_ast_diff reads

storeVars == <<store, inserted, last_call, ops>>

findVars == <<find_in, find_scores, find_out>>

buildVars == <<repo, pending>>

diffVars == <<diff_in, diff_out>>

asmVars == <<asm_in, asm_out>>

parseVars == <<parse_in, parse_out>>

pipeVars == <<pl>>

clientVars == <<now, client, tasks, requests>>

extractVars == <<ex_in, ex_out>>

astVars == <<worktrees>>

vars == <<storeVars, findVars, buildVars, diffVars, asmVars, parseVars, pipeVars, clientVars, extractVars, astVars>>

(***************************************************************************)
(* Bounds of the model.                                                    *)
(***************************************************************************)
MaxOps == 4          \* GraphStore calls in one run of SpecStore
MaxEdges == 2        \* add_edge calls that build a store handed to find
MaxFileEdges == 1    \* add_edge calls on top of a file's belongs-to edges
MaxSeeds == 2        \* length of the seed sequence handed to find
MaxDefs == 2         \* top-level statements of foo.py
MaxSymbols == 2      \* symbols in a table handed to the differ
MaxContext == 3      \* context node ids handed to assemble
MaxTokens == 4       \* largest max_tokens_per_unit
MaxPieces == 3       \* pieces an LLM response is put together from
MaxFiles == 2        \* file changes the diff provider reports
MaxChanges == 2      \* symbol changes run_ast_diff reports
MaxBudget == 1       \* the max_nodes_per_unit tried besides 0 and the default

(***************************************************************************)
(* Generic helpers.                                                        *)
(***************************************************************************)
None == "None"

\* None where a text, a sequence of characters, is expected
NoneText == <<"None">>

Range(s) == {s[i] : i \in 1..Len(s)}

Min(a, b) == IF a < b THEN a ELSE b

Max(a, b) == IF a > b THEN a ELSE b

\* [f(s[1]), ..., f(s[n])]
MapSeq(s, f(_)) == [i \in 1..Len(s) |-> f(s[i])]

\* sequences over S of length lo..hi
SeqsBetween(S, lo, hi) == UNION {[1..n -> S] : n \in lo..hi}

\* sequences without repetition whose elements are exactly the set S
Orderings(S) == {s \in [1..Cardinality(S) -> S] : Range(s) = S}

\* position of the first occurrence of x in s (0 if absent)
IndexOf(s, x) ==
    IF \E i \in 1..Len(s) : s[i] = x
    THEN CHOOSE i \in 1..Len(s) : s[i] = x /\ \A j \in 1..(i - 1) : s[j] # x
    ELSE 0

\* Python's s[:m] for any integer m
PySliceTo(s, m) ==
    IF m >= 0 THEN SubSeq(s, 1, Min(m, Len(s)))
    ELSE SubSeq(s, 1, Max(0, Len(s) + m))

(***************************************************************************)
(* Domain model (app/models/domain.py).                                    *)
(***************************************************************************)
\* EdgeType, in the enum's definition order (the order `for t in EdgeType`)
EdgeType == <<"CALLS", "IMPORTS", "INHERITS", "TESTS", "USES_CONFIG">>

EdgeTypes == Range(EdgeType)

SymbolKind == {"module", "function", "class", "method", "constant", "test"}

\* GraphNode payload the store and retrieval read: kind and extra.is_test_file
GraphNode(kind, is_test_file) == [kind |-> kind, is_test_file |-> is_test_file]

(***************************************************************************)
(* GraphStore (app/graph/store.py).                                        *)
(*   ids    keys of _nodes in insertion order                              *)
(*   node   _nodes: id -> GraphNode                                        *)
(*   gnodes node set of the networkx DiGraph _g                            *)
(*   adj    the (src, dst) pairs of _g in insertion order; a DiGraph holds *)
(*          one edge per ordered pair                                      *)
(*   etype  the "type" attribute of each edge of _g                        *)
(***************************************************************************)
EmptyStore ==
    [ids |-> <<>>, node |-> <<>>, gnodes |-> {}, adj |-> <<>>, etype |-> <<>>]

has_node(st, id) == id \in DOMAIN st.node

add_node(st, id, n) ==
    [st EXCEPT !.ids = IF has_node(st, id) THEN @ ELSE Append(@, id),
               !.node = (id :> n) @@ @,
               !.gnodes = @ \cup {id}]

\* networkx DiGraph.add_edge: creates missing endpoints, and on an existing
\* (src, dst) pair updates the attributes of the one edge in place
nx_add_edge(st, src, dst, t) ==
    [st EXCEPT !.gnodes = @ \cup {src, dst},
               !.adj = IF <<src, dst>> \in DOMAIN st.etype THEN @
                       ELSE Append(@, <<src, dst>>),
               !.etype = (<<src, dst>> :> t) @@ @]

add_edge_unguarded(st, src, dst, t) == nx_add_edge(st, src, dst, t)

add_edge(st, src, dst, t) ==
    IF has_node(st, src) /\ has_node(st, dst)
    THEN nx_add_edge(st, src, dst, t)
    ELSE st

\* the value get_node returns for an unknown id (Python's None)
NoNode == [kind |-> None, is_test_file |-> FALSE]

get_node(st, id) == IF has_node(st, id) THEN st.node[id] ELSE NoNode

EdgeDst(e) == e[2]

EdgeSrc(e) == e[1]

\* edge_type = None means no filter
neighbors_out(st, id, t) ==
    IF id \notin st.gnodes THEN <<>>
    ELSE MapSeq(SelectSeq(st.adj,
                    LAMBDA e : e[1] = id /\ (t = None \/ st.etype[e] = t)),
                EdgeDst)

neighbors_in(st, id, t) ==
    IF id \notin st.gnodes THEN <<>>
    ELSE MapSeq(SelectSeq(st.adj,
                    LAMBDA e : e[2] = id /\ (t = None \/ st.etype[e] = t)),
                EdgeSrc)

all_node_ids(st) == st.ids

\* a lookup that files the missing ID as a node, the way a defaultdict does
StoreAfterGetNodeInserting(st, id) == IF has_node(st, id) THEN st ELSE add_node(st, id, NoNode)

\* the store after get_node(id): self._nodes.get(node_id) assigns nothing,
\* and neither do neighbors_out, neighbors_in and all_node_ids
StoreAfterGetNode(st, id) == st

\* the store after the lookups of ids, one after the other
RECURSIVE StoreAfterReads(_, _)
StoreAfterReads(st, ids) ==
    IF ids = <<>> THEN st ELSE StoreAfterReads(StoreAfterGetNode(st, Head(ids)), Tail(ids))

(***************************************************************************)
(* RelevantContextFinder (app/graph/retrieval.py).                         *)
(***************************************************************************)
\* scores are kept in units of 1/ScoreScale
ScoreScale == 60

\* RetrievalConfig.max_nodes_per_unit when the caller sets none
DefaultMaxNodes == 30

RetrievalConfig(max_nodes_per_unit) ==
    [depth_calls |-> 2, depth_imports |-> 1, depth_tests |-> 1,
     max_nodes_per_unit |-> max_nodes_per_unit]

\* every edge type weighs the same
FlatWeights == [t \in EdgeTypes |-> ScoreScale]

_default_weights ==
    [t \in EdgeTypes |->
        CASE t = "TESTS" -> (3 * ScoreScale) \div 2
          [] t = "CALLS" -> ScoreScale
          [] t = "IMPORTS" -> (4 * ScoreScale) \div 5
          [] t = "INHERITS" -> (7 * ScoreScale) \div 10
          [] t = "USES_CONFIG" -> ScoreScale \div 2]

depth_limits(cfg) ==
    [t \in EdgeTypes |->
        CASE t = "CALLS" -> cfg.depth_calls
          [] t = "IMPORTS" -> cfg.depth_imports
          [] t = "TESTS" -> cfg.depth_tests
          [] t = "INHERITS" -> cfg.depth_calls
          [] t = "USES_CONFIG" -> cfg.depth_imports]

SeedBonus == 2 * ScoreScale

TestBonus == ScoreScale \div 2

HotspotBonus == (3 * ScoreScale) \div 10

\* scores.get(id, 0)
ScoreGet(scores, id) == IF id \in DOMAIN scores THEN scores[id] ELSE 0

\* the depth test off by one: a node at the limit is still expanded
RECURSIVE CandidatesPastLimit(_, _, _, _, _)
CandidatesPastLimit(st, cfg, node_id, depth, i) ==
    IF i > Len(EdgeType) THEN <<>>
    ELSE LET t == EdgeType[i]
             tag(nid) == <<nid, t>>
             here == IF depth > depth_limits(cfg)[t] THEN <<>>
                     ELSE MapSeq(neighbors_out(st, node_id, t), tag)
                          \o MapSeq(neighbors_in(st, node_id, t), tag)
         IN  here \o CandidatesPastLimit(st, cfg, node_id, depth, i + 1)

\* The neighbours one dequeued node offers, in the order the loops of
\* find reach them: per edge type (enum order, types beyond their depth limit
\* skipped) the out-neighbours, then the in-neighbours.
RECURSIVE Candidates(_, _, _, _, _)
Candidates(st, cfg, node_id, depth, i) ==
    IF i > Len(EdgeType) THEN <<>>
    ELSE LET t == EdgeType[i]
             tag(nid) == <<nid, t>>
             here == IF depth >= depth_limits(cfg)[t] THEN <<>>
                     ELSE MapSeq(neighbors_out(st, node_id, t), tag)
                          \o MapSeq(neighbors_in(st, node_id, t), tag)
         IN  here \o Candidates(st, cfg, node_id, depth, i + 1)

\* BFS state: queue of <<node, depth>>, seen, and the scores dict as its key
\* order (order) and its values (scores)
Visit(b, nid, w, depth) ==
    IF nid \in b.seen THEN b
    ELSE [b EXCEPT !.seen = @ \cup {nid},
                   !.order = IF nid \in DOMAIN b.scores THEN @ ELSE Append(@, nid),
                   !.scores = (nid :> (ScoreGet(b.scores, nid) + (w \div (depth + 1)))) @@ @,
                   !.queue = Append(@, <<nid, depth + 1>>)]

RECURSIVE VisitAll(_, _, _, _)
VisitAll(b, cands, i, depth) ==
    IF i > Len(cands) THEN b
    ELSE VisitAll(Visit(b, cands[i][1], _default_weights[cands[i][2]], depth),
                  cands, i + 1, depth)

RECURSIVE Bfs(_, _, _)
Bfs(st, cfg, b) ==
    IF b.queue = <<>> THEN b
    ELSE LET node_id == Head(b.queue)[1]
             depth == Head(b.queue)[2]
             b1 == [b EXCEPT !.queue = Tail(@)]
         IN  IF get_node(st, node_id) = NoNode THEN Bfs(st, cfg, b1)
             ELSE Bfs(st, cfg,
                      VisitAll(b1, Candidates(st, cfg, node_id, depth, 1), 1, depth))

\* the post-hoc bonuses of one scored id
Bonus(st, nid) ==
    LET node == get_node(st, nid)
    IN  (IF node # NoNode /\ (node.kind = "test" \/ node.is_test_file)
         THEN TestBonus ELSE 0)
        + (IF Len(neighbors_in(st, nid, None)) > 2 THEN HotspotBonus ELSE 0)

\* sorted(keys, key=lambda x: -score[x]): stable, so equal scores keep the
\* order of `keys`
SortedByScore(keys, score) ==
    LET before(x, y) == \/ score[x] > score[y]
                        \/ score[x] = score[y] /\ IndexOf(keys, x) < IndexOf(keys, y)
        rank(x) == 1 + Cardinality({y \in Range(keys) : before(y, x)})
    IN  [i \in 1..Len(keys) |-> CHOOSE x \in Range(keys) : rank(x) = i]

TruncateOffByOne(sorted_ids, max_nodes) == PySliceTo(sorted_ids, max_nodes + 1)

Truncate(sorted_ids, max_nodes) == PySliceTo(sorted_ids, max_nodes)

\* The state of find when its BFS loop ends; seed_order is the order in which
\* this run iterates set(changed_node_ids).
find_bfs(st, cfg, changed_node_ids, seed_order) ==
    LET seeds == Range(changed_node_ids)
        b0 == [queue |-> MapSeq(seed_order, LAMBDA nid : <<nid, 0>>),
               seen |-> seeds,
               order |-> seed_order,
               scores |-> [nid \in seeds |-> SeedBonus]]
    IN  Bfs(st, cfg, b0)

\* the bonuses, the sort and the cap that follow the BFS loop
find_rank(st, cfg, b) ==
    LET scores == [nid \in DOMAIN b.scores |-> b.scores[nid] + Bonus(st, nid)]
    IN  Truncate(SortedByScore(b.order, scores), cfg.max_nodes_per_unit)

find(st, cfg, changed_node_ids, seed_order) ==
    IF changed_node_ids = <<>> THEN <<>>
    ELSE find_rank(st, cfg, find_bfs(st, cfg, changed_node_ids, seed_order))

DOT_PY == <<".", "p", "y">>

TEST_PREFIX == <<"t", "e", "s", "t", "_">>

TEST_SUFFIX == <<"_", "t", "e", "s", "t", ".", "p", "y">>

(***************************************************************************)
(* Strings the code takes apart (paths, module ids, node ids, names) are   *)
(* sequences of one-character strings.                                     *)
(***************************************************************************)
StartsWith(s, p) == Len(p) <= Len(s) /\ SubSeq(s, 1, Len(p)) = p

EndsWith(s, p) == Len(p) <= Len(s) /\ SubSeq(s, Len(s) - Len(p) + 1, Len(s)) = p

\* Python's `sub in s`
Contains(s, sub) ==
    \E i \in 1..(Len(s) - Len(sub) + 1) : SubSeq(s, i, i + Len(sub) - 1) = sub

\* Python's s.replace(old, new), old not empty
RECURSIVE Replace(_, _, _)
Replace(s, old, new) ==
    IF s = <<>> THEN <<>>
    ELSE IF StartsWith(s, old)
         THEN new \o Replace(SubSeq(s, Len(old) + 1, Len(s)), old, new)
         ELSE <<Head(s)>> \o Replace(Tail(s), old, new)

\* Python's s.split(ch)[0]
SplitHead(s, ch) ==
    IF ch \in Range(s) THEN SubSeq(s, 1, IndexOf(s, ch) - 1) ELSE s

\* pathlib's Path(p).name
RECURSIVE PathName(_)
PathName(p) == IF "/" \in Range(p) THEN PathName(Tail(p)) ELSE p

RECURSIVE Flatten(_)
Flatten(ss) == IF ss = <<>> THEN <<>> ELSE Head(ss) \o Flatten(Tail(ss))

(***************************************************************************)
(* Parsed files.  A tree is the top-level statement list of a module:      *)
(*   FunctionDef  name, calls (the names called in its own statements),    *)
(*                and where it matters body, args, docstring,              *)
(*                decorator_list, lineno, end_lineno                       *)
(*   ClassDef     name, bases, body                                        *)
(*   Assign       targets                                                  *)
(*   ImportFrom   module, names                                            *)
(*   Import       names                                                    *)
(***************************************************************************)
FunctionDef(name, calls) == [type |-> "FunctionDef", name |-> name, calls |-> calls]

ClassDef(name, bases, body) ==
    [type |-> "ClassDef", name |-> name, bases |-> bases, body |-> body]

ImportFrom(module, names) == [type |-> "ImportFrom", module |-> module, names |-> names]

Import(names) == [type |-> "Import", names |-> names]

\* parent_class of a symbol that has none (Python's None)
NoParent == <<>>

\* SymbolInfo (app/ast_/interfaces.py); parent_class is extra["parent_class"]
SymbolInfo(name, kind, line_start, line_end, signature, docstring, decorators, parent_class) ==
    [name |-> name, kind |-> kind, line_start |-> line_start, line_end |-> line_end,
     signature |-> signature, docstring |-> docstring, decorators |-> decorators,
     parent_class |-> parent_class]

\* ast.arguments of a definition without parameters
NoArgs == [posonlyargs |-> <<>>, args |-> <<>>, vararg |-> NoneText, kwonlyargs |-> <<>>, kwarg |-> NoneText]

\* an assignment statement and its targets: a Name, or a target that is none
\* (an attribute, a subscript, a tuple)
Assign(targets) == [type |-> "Assign", targets |-> targets]

Name(id) == [type |-> "Name", id |-> id]

Subscript == [type |-> "Subscript", id |-> <<>>]

\* A node of the model leaves out the fields it has nothing to say about:
\* body of a FunctionDef, args, docstring, decorator_list, lineno, end_lineno.
Attr(node, f, default) == IF f \in DOMAIN node THEN node[f] ELSE default

Body(node) == Attr(node, "body", <<>>)

\* node.lineno or 0
Lineno(node) == Attr(node, "lineno", 0)

\* node.end_lineno or node.lineno or 0
EndLineno(node) == IF Attr(node, "end_lineno", 0) # 0 THEN node.end_lineno ELSE Lineno(node)

\* sep.join(parts)
RECURSIVE Join(_, _)
Join(parts, sep) ==
    IF parts = <<>> THEN <<>>
    ELSE IF Len(parts) = 1 THEN parts[1]
    ELSE parts[1] \o sep \o Join(Tail(parts), sep)

\* _format_args (python_extractor.py:18-32)
_format_args(args) ==
    LET names == args.posonlyargs
                 \o (IF args.posonlyargs # <<>> THEN <<<<"/">>>> ELSE <<>>)
                 \o args.args
                 \o (IF args.vararg # NoneText THEN <<<<"*">> \o args.vararg>> ELSE <<>>)
                 \o args.kwonlyargs
                 \o (IF args.kwarg # NoneText THEN <<<<"*", "*">> \o args.kwarg>> ELSE <<>>)
    IN  <<"(">> \o Join(names, <<",", " ">>) \o <<")">>

\* A symbol of a node that carries no line numbers, parameters, docstring or
\* decorators: the signature of a definition without parameters and the
\* defaults of SymbolInfo for the rest.
TreeSymbol(name, kind, parent_class) ==
    SymbolInfo(name, kind, 0, 0,
               IF kind \in {"class", "constant"} THEN name ELSE name \o <<"(", ")">>,
               None, <<>>, parent_class)

\* _Visitor (python_extractor.py:58-118): the symbols collected so far after
\* the visit of a node, resp. of a list of child statements, under
\* _current_class
RECURSIVE _Visitor(_, _, _)

RECURSIVE generic_visit(_, _, _)
generic_visit(children, current_class, symbols) ==
    IF children = <<>> THEN symbols
    ELSE generic_visit(Tail(children), current_class,
                       _Visitor(Head(children), current_class, symbols))

\* lines 66-82
visit_ClassDef(node, current_class, symbols) ==
    generic_visit(node.body, node.name,
        Append(symbols, SymbolInfo(node.name, "class", Lineno(node), EndLineno(node), node.name, Attr(node, "docstring", None), Attr(node, "decorator_list", <<>>), NoParent)))

\* lines 84-99
visit_FunctionDef(node, current_class, symbols) ==
    generic_visit(Body(node), current_class,
        Append(symbols, SymbolInfo(node.name, IF current_class # NoParent THEN "method" ELSE "function", Lineno(node), EndLineno(node), node.name \o _format_args(Attr(node, "args", NoArgs)), Attr(node, "docstring", None), Attr(node, "decorator_list", <<>>), current_class)))

\* lines 101-118: inside a class nothing; otherwise the first target that is
\* a Name no symbol collected so far carries
visit_Assign(node, current_class, symbols) ==
    LET unbound == SelectSeq(node.targets, LAMBDA t :
                       t.type = "Name" /\ \A i \in 1..Len(symbols) : symbols[i].name # t.id)
    IN  IF current_class # NoParent \/ unbound = <<>> THEN symbols
        ELSE Append(symbols, SymbolInfo(unbound[1].id, "constant", Lineno(node), EndLineno(node), unbound[1].id, None, <<>>, NoParent))

_Visitor(node, current_class, symbols) ==
    CASE node.type = "ClassDef" -> visit_ClassDef(node, current_class, symbols)
      [] node.type = "FunctionDef" -> visit_FunctionDef(node, current_class, symbols)
      [] node.type = "Assign" -> visit_Assign(node, current_class, symbols)
      [] OTHER -> symbols

\* PythonSymbolExtractor.extract
extract(tree) == generic_visit(tree, NoParent, <<>>)

\* ast.walk: breadth first, so level by level, the statements of a level in
\* the order of their parents
RECURSIVE walk(_)
walk(level) ==
    IF level = <<>> THEN <<>>
    ELSE level \o walk(Flatten([i \in 1..Len(level) |-> Body(level[i])]))

\* the FunctionDef nodes in ast.walk order
WalkFunctionDefs(tree) == SelectSeq(walk(tree), LAMBDA stmt : stmt.type = "FunctionDef")

\* the ClassDef nodes in ast.walk order
WalkClassDefs(tree) == SelectSeq(walk(tree), LAMBDA stmt : stmt.type = "ClassDef")

\* _CallVisitor over a definition: the names called in it, those called in
\* the definitions nested in it included
RECURSIVE _CallVisitor(_)
_CallVisitor(node) ==
    Attr(node, "calls", <<>>)
    \o Flatten([i \in 1..Len(Body(node)) |-> _CallVisitor(Body(node)[i])])

\* _ImportVisitor.imports: the imported names, aliases left out
ImportNames(stmt) ==
    CASE stmt.type = "Import" -> stmt.names
      [] stmt.type = "ImportFrom" ->
            [i \in 1..Len(stmt.names) |->
                IF stmt.module # <<>> THEN stmt.module \o <<".">> \o stmt.names[i]
                ELSE stmt.names[i]]
      [] OTHER -> <<>>

_ImportVisitor(tree) == Flatten([i \in 1..Len(tree) |-> ImportNames(tree[i])])

(***************************************************************************)
(* PythonGraphBuilder (app/graph/python_builder.py).                       *)
(***************************************************************************)
_module_id(file_path) == Replace(Replace(file_path, <<"/">>, <<".">>), DOT_PY, <<>>)

_node_id(file_path, symbol_name, kind, parent_class) ==
    IF kind = "module" THEN _module_id(file_path)
    ELSE IF parent_class # NoParent
         THEN file_path \o <<":", ":">> \o parent_class \o <<".">> \o symbol_name
         ELSE file_path \o <<":", ":">> \o symbol_name

_is_test_file(file_path) ==
    LET name == PathName(file_path)
    IN  (StartsWith(name, TEST_PREFIX) /\ EndsWith(name, DOT_PY))
        \/ EndsWith(name, TEST_SUFFIX)

\* GraphNode as the builder fills it
BuilderNode(kind, file_path, symbol_name, is_test_file) ==
    [kind |-> kind, is_test_file |-> is_test_file,
     file_path |-> file_path, symbol_name |-> symbol_name]

\* the first element of s that satisfies ok, as a sequence of length 0 or 1
First(s, ok(_)) ==
    LET hits == SelectSeq(s, ok) IN IF hits = <<>> THEN <<>> ELSE <<Head(hits)>>

\* add_edge over a sequence of (src, dst, type) calls, in order
RECURSIVE add_edges(_, _)
add_edges(st, es) ==
    IF es = <<>> THEN st
    ELSE add_edges(add_edge(st, Head(es)[1], Head(es)[2], Head(es)[3]), Tail(es))

\* lines 130-147: the Inherits edges of class symbol s, whose node is nid
InheritsEdges(st, file_path, tree, s, nid) ==
    LET found == First(WalkClassDefs(tree), LAMBDA c : c.name = s.name)
        bases == IF found = <<>> THEN <<>> ELSE found[1].bases
        base_id(b) == file_path \o <<":", ":">> \o b
    IN  add_edges(st,
            MapSeq(SelectSeq(bases, LAMBDA b : b # <<>> /\ has_node(st, base_id(b))),
                   LAMBDA b : <<nid, base_id(b), "INHERITS">>))

\* lines 148-160: the Calls edges of function or method symbol s; the body is
\* that of the first FunctionDef of the walk that carries the symbol's name
CallsEdges(st, file_path, tree, s, nid) ==
    LET found == First(WalkFunctionDefs(tree), LAMBDA d : d.name = s.name)
        calls == IF found = <<>> THEN <<>> ELSE _CallVisitor(found[1])
        target_id(c) == file_path \o <<":", ":">> \o c
    IN  add_edges(st,
            MapSeq(SelectSeq(calls, LAMBDA c : has_node(st, target_id(c))),
                   LAMBDA c : <<nid, target_id(c), "CALLS">>))

\* lines 165-179: the Tests edges from a test file's module, one pass over the
\* file's imports; each import links to the first matching module node
RECURSIVE TestsEdges(_, _, _)
TestsEdges(st, module_id, imports) ==
    IF imports = <<>> THEN st
    ELSE LET imp_name == Head(imports)
             base_module == IF "." \in Range(imp_name) THEN SplitHead(imp_name, ".")
                            ELSE imp_name
             hit == First(all_node_ids(st),
                        LAMBDA nid :
                            /\ get_node(st, nid).kind = "module"
                            /\ \/ Contains(get_node(st, nid).symbol_name, base_module)
                               \/ EndsWith(get_node(st, nid).symbol_name,
                                           <<".">> \o base_module))
             st1 == IF hit = <<>> THEN st
                    ELSE add_edge(st, module_id, hit[1], "TESTS")
         IN  TestsEdges(st1, module_id, Tail(imports))

\* lines 181-195: the module-level Imports edges
RECURSIVE ImportsEdges(_, _, _)
ImportsEdges(st, module_id, imports) ==
    IF imports = <<>> THEN st
    ELSE LET replaced == Replace(Replace(Head(imports), <<"/">>, <<".">>), DOT_PY, <<>>)
             other_module_id == IF "." \in Range(replaced) THEN SplitHead(replaced, ".")
                                ELSE replaced
             hit == First(all_node_ids(st),
                        LAMBDA nid :
                            /\ get_node(st, nid).kind = "module"
                            /\ \/ Contains(nid, other_module_id)
                               \/ EndsWith(nid, <<".">> \o other_module_id))
             st1 == IF hit = <<>> THEN st
                    ELSE add_edge(st, module_id, hit[1], "IMPORTS")
         IN  ImportsEdges(st1, module_id, Tail(imports))

\* lines 115-179: one pass of the loop over the file's symbols
ProcessSymbol(st, file_path, tree, s, include_tests) ==
    LET module_id == _module_id(file_path)
        nid == _node_id(file_path, s.name, s.kind, s.parent_class)
        st1 == add_edge(add_node(st, nid, BuilderNode(s.kind, file_path, s.name, FALSE)),
                        nid, module_id, "IMPORTS")
        st2 == IF s.kind = "class" THEN InheritsEdges(st1, file_path, tree, s, nid)
               ELSE st1
        st3 == IF s.kind \in {"method", "function"}
               THEN CallsEdges(st2, file_path, tree, s, nid)
               ELSE st2
    IN  IF _is_test_file(file_path) /\ include_tests
        THEN TestsEdges(st3, module_id, _ImportVisitor(tree))
        ELSE st3

RECURSIVE ProcessSymbols(_, _, _, _, _)
ProcessSymbols(st, file_path, tree, symbols, include_tests) ==
    IF symbols = <<>> THEN st
    ELSE ProcessSymbols(ProcessSymbol(st, file_path, tree, Head(symbols), include_tests),
                        file_path, tree, Tail(symbols), include_tests)

\* PythonGraphBuilder._process_file
_process_file(st, file_path, tree, include_tests) ==
    LET module_id == _module_id(file_path)
        st0 == add_node(st, module_id,
                   BuilderNode("module", file_path, module_id, _is_test_file(file_path)))
        st1 == ProcessSymbols(st0, file_path, tree, extract(tree), include_tests)
    IN  ImportsEdges(st1, module_id, _ImportVisitor(tree))

(***************************************************************************)
(* PythonSemanticDiffer (app/ast_/python_differ.py).                       *)
(***************************************************************************)
_symbol_key(s) == <<s.name, s.kind, s.parent_class>>

\* {_symbol_key(s): s for s in symbols} as its items in iteration order: a key
\* keeps the place of its first record and the value of its last
by_key(symbols) ==
    LET first(i) == \A j \in 1..(i - 1) : _symbol_key(symbols[j]) # _symbol_key(symbols[i])
        last(k) == CHOOSE i \in 1..Len(symbols) :
                      /\ _symbol_key(symbols[i]) = k
                      /\ \A j \in (i + 1)..Len(symbols) : _symbol_key(symbols[j]) # k
        firsts == SelectSeq([i \in 1..Len(symbols) |-> i], first)
    IN  [n \in 1..Len(firsts) |-> symbols[last(_symbol_key(symbols[firsts[n]]))]]

\* key in d
HasKey(items, k) == \E i \in 1..Len(items) : _symbol_key(items[i]) = k

\* d[key], for a key of d
Get(items, k) == items[CHOOSE i \in 1..Len(items) : _symbol_key(items[i]) = k]

\* the descriptors in another order: docstring before signature
_compare_symbols_reordered(base_s, head_s) ==
    (IF base_s.docstring # head_s.docstring THEN <<"docstring_change">> ELSE <<>>)
    \o (IF base_s.signature # head_s.signature THEN <<"signature_change">> ELSE <<>>)
    \o (IF base_s.decorators # head_s.decorators THEN <<"decorator_change">> ELSE <<>>)

\* the comparison extended to the line range of the two records
_compare_symbols_and_lines(base_s, head_s) ==
    (IF base_s.signature # head_s.signature THEN <<"signature_change">> ELSE <<>>)
    \o (IF base_s.docstring # head_s.docstring THEN <<"docstring_change">> ELSE <<>>)
    \o (IF base_s.decorators # head_s.decorators THEN <<"decorator_change">> ELSE <<>>)
    \o (IF <<base_s.line_start, base_s.line_end>> # <<head_s.line_start, head_s.line_end>>
        THEN <<"body_change">> ELSE <<>>)

_compare_symbols(base_s, head_s) ==
    (IF base_s.signature # head_s.signature THEN <<"signature_change">> ELSE <<>>)
    \o (IF base_s.docstring # head_s.docstring THEN <<"docstring_change">> ELSE <<>>)
    \o (IF base_s.decorators # head_s.decorators THEN <<"decorator_change">> ELSE <<>>)

SymbolChange(file_path, s, change_type, descriptors) ==
    [file_path |-> file_path, symbol_name |-> s.name, kind |-> s.kind,
     change_type |-> change_type, descriptors |-> descriptors,
     line_start |-> s.line_start, line_end |-> s.line_end]

\* the head symbols the first loop of diff walks: head_by_key.items()
HeadListed(head_symbols) == head_symbols

HeadItems(head_symbols) == by_key(head_symbols)

\* the changes one head symbol contributes
HeadChange(file_path, base_by_key, head_s) ==
    IF ~HasKey(base_by_key, _symbol_key(head_s))
    THEN <<SymbolChange(file_path, head_s, "added", <<"added">>)>>
    ELSE LET descriptors == _compare_symbols(Get(base_by_key, _symbol_key(head_s)), head_s)
         IN  IF descriptors # <<>>
             THEN <<SymbolChange(file_path, head_s, "modified", descriptors)>>
             ELSE <<>>

\* PythonSemanticDiffer.diff
diff(file_path, base_symbols, head_symbols) ==
    LET base_by_key == by_key(base_symbols)
        head_items == HeadItems(head_symbols)
        head_by_key == by_key(head_symbols)
    IN  Flatten([i \in 1..Len(head_items) |->
                    HeadChange(file_path, base_by_key, head_items[i])])
        \o Flatten([i \in 1..Len(base_by_key) |->
                    IF ~HasKey(head_by_key, _symbol_key(base_by_key[i]))
                    THEN <<SymbolChange(file_path, base_by_key[i], "removed", <<"removed">>)>>
                    ELSE <<>>])

(***************************************************************************)
(* run_ast_diff (app/services/ast_diff_service.py).  A worktree maps the   *)
(* paths of its files to File records; parse returns None for a file whose *)
(* parses field is FALSE.                                                  *)
(***************************************************************************)
File(parses, tree) == [parses |-> parses, tree |-> tree]

\* PythonLanguageParser.supports_file
supports_file(file_path) == EndsWith(file_path, DOT_PY) \/ EndsWith(file_path, DOT_PY \o <<"i">>)

\* lines 32-55 and 56-79: every symbol of the one side the file is read from
OneSideChanges(fc, worktree, change_type) ==
    IF fc.path \notin DOMAIN worktree \/ ~worktree[fc.path].parses THEN <<>>
    ELSE MapSeq(extract(worktree[fc.path].tree),
                LAMBDA sym : SymbolChange(fc.path, sym, change_type, <<change_type>>))

\* lines 80-106: the semantic diff of the two sides
BothSidesChanges(fc, base, head) ==
    IF ~supports_file(fc.path) \/ fc.path \notin DOMAIN head \/ ~head[fc.path].parses THEN <<>>
    ELSE LET base_symbols == IF fc.path \in DOMAIN base /\ base[fc.path].parses
                             THEN extract(base[fc.path].tree) ELSE <<>>
         IN  diff(fc.path, base_symbols, extract(head[fc.path].tree))

\* one pass of the loop of run_ast_diff
FileSymbolChanges(fc, base, head) ==
    CASE fc.change_type = "removed" -> OneSideChanges(fc, base, "removed")
      [] fc.change_type = "added" -> OneSideChanges(fc, head, "added")
      [] OTHER -> BothSidesChanges(fc, base, head)

run_ast_diff(file_changes, base, head) ==
    Flatten([i \in 1..Len(file_changes) |-> FileSymbolChanges(file_changes[i], base, head)])

(***************************************************************************)
(* ContextAssembler (app/context/assembler.py).  Texts are sequences of    *)
(* one-character strings.                                                  *)
(***************************************************************************)
\* the text made of n copies of the character c
Rep(c, n) == [i \in 1..n |-> c]

Whitespace == {" ", "\n", "\t", "\r"}

\* not text.strip()
IsBlank(text) == \A i \in 1..Len(text) : text[i] \in Whitespace

_estimate_tokens(text) == Max(1, Len(text) \div 4)

ReviewUnit(symbol_change, context_node_ids, before_snippet, after_snippet) ==
    [symbol_change |-> symbol_change, context_node_ids |-> context_node_ids,
     before_snippet |-> before_snippet, after_snippet |-> after_snippet]

\* the loop of assemble going on after an overflow: the node that does not
\* fit is passed over like a blank one
RECURSIVE AssembleLoopSkipping(_, _, _, _, _, _)
AssembleLoopSkipping(st, snippet_of, context_node_ids, max_tokens, used, included) ==
    IF context_node_ids = <<>> THEN included
    ELSE LET nid == Head(context_node_ids)
             rest == Tail(context_node_ids)
         IN  IF get_node(st, nid) = NoNode
             THEN AssembleLoopSkipping(st, snippet_of, rest, max_tokens, used, included)
             ELSE IF IsBlank(snippet_of[nid])
             THEN AssembleLoopSkipping(st, snippet_of, rest, max_tokens, used, included)
             ELSE LET used1 == used + _estimate_tokens(snippet_of[nid])
                  IN  IF used1 > max_tokens
                      THEN AssembleLoopSkipping(st, snippet_of, rest, max_tokens, used, included)
                      ELSE AssembleLoopSkipping(st, snippet_of, rest, max_tokens, used1,
                                                Append(included, nid))

\* the loop of assemble with the budget test moved before the addition
RECURSIVE AssembleLoopTestFirst(_, _, _, _, _, _)
AssembleLoopTestFirst(st, snippet_of, context_node_ids, max_tokens, used, included) ==
    IF context_node_ids = <<>> THEN included
    ELSE LET nid == Head(context_node_ids)
             rest == Tail(context_node_ids)
         IN  IF get_node(st, nid) = NoNode
             THEN AssembleLoopTestFirst(st, snippet_of, rest, max_tokens, used, included)
             ELSE IF IsBlank(snippet_of[nid])
             THEN AssembleLoopTestFirst(st, snippet_of, rest, max_tokens, used, included)
             ELSE IF used > max_tokens THEN included
             ELSE AssembleLoopTestFirst(st, snippet_of, rest, max_tokens,
                                        used + _estimate_tokens(snippet_of[nid]),
                                        Append(included, nid))

\* the loop of assemble over context_node_ids; snippet_of[nid] is what
\* _read_snippet returns for the node nid
RECURSIVE AssembleLoop(_, _, _, _, _, _)
AssembleLoop(st, snippet_of, context_node_ids, max_tokens, used, included) ==
    IF context_node_ids = <<>> THEN included
    ELSE LET nid == Head(context_node_ids)
             rest == Tail(context_node_ids)
         IN  IF get_node(st, nid) = NoNode
             THEN AssembleLoop(st, snippet_of, rest, max_tokens, used, included)
             ELSE IF IsBlank(snippet_of[nid])
             THEN AssembleLoop(st, snippet_of, rest, max_tokens, used, included)
             ELSE LET used1 == used + _estimate_tokens(snippet_of[nid])
                  IN  IF used1 > max_tokens THEN included
                      ELSE AssembleLoop(st, snippet_of, rest, max_tokens, used1,
                                        Append(included, nid))

\* ContextAssembler.assemble
assemble(st, snippet_of, max_tokens, symbol_change, context_node_ids, before_snippet, after_snippet) ==
    LET used == (IF before_snippet # <<>> THEN _estimate_tokens(before_snippet) ELSE 0)
                + (IF after_snippet # <<>> THEN _estimate_tokens(after_snippet) ELSE 0)
    IN  ReviewUnit(symbol_change,
                   AssembleLoop(st, snippet_of, context_node_ids, max_tokens, used, <<>>),
                   before_snippet, after_snippet)

(***************************************************************************)
(* _parse_findings_from_response (app/llm/orchestrator.py).                *)
(***************************************************************************)
UPPER == <<"A", "B", "C", "D", "E", "F", "G", "H", "I", "J", "K", "L", "M", "N", "O", "P", "Q", "R", "S", "T", "U", "V", "W", "X", "Y", "Z">>

LOWER == <<"a", "b", "c", "d", "e", "f", "g", "h", "i", "j", "k", "l", "m", "n", "o", "p", "q", "r", "s", "t", "u", "v", "w", "x", "y", "z">>

DIGITS == <<"0", "1", "2", "3", "4", "5", "6", "7", "8", "9">>

\* str.lower() of one character
LowerChar(c) == IF c \in Range(UPPER) THEN LOWER[IndexOf(UPPER, c)] ELSE c

Lower(text) == [i \in 1..Len(text) |-> LowerChar(text[i])]

\* text.strip()
Strip(text) ==
    LET solid == {i \in 1..Len(text) : text[i] \notin Whitespace}
    IN  IF solid = {} THEN <<>>
        ELSE SubSeq(text, CHOOSE i \in solid : \A j \in solid : i <= j,
                          CHOOSE i \in solid : \A j \in solid : i >= j)

\* text[:n]
Prefix(text, n) == SubSeq(text, 1, Min(n, Len(text)))

\* word (lower case) at position j of text, whatever the case
WordAt(text, j, word) ==
    /\ j >= 1
    /\ j + Len(word) - 1 <= Len(text)
    /\ Lower(SubSeq(text, j, j + Len(word) - 1)) = word

\* positions k >= j reached from j over whitespace only: j followed by \s*
AfterSpaces(text, j) ==
    {k \in j..(Len(text) + 1) : \A m \in j..(k - 1) : text[m] \in Whitespace}

BulletWords == {<<"e", "r", "r", "o", "r">>, <<"w", "a", "r", "n", "i", "n", "g">>, <<"i", "n", "f", "o">>, <<"s", "u", "g", "g", "e", "s", "t", "i", "o", "n">>}

\* the lookahead of the split pattern at position j:
\*   #{1,3}\s | \*\* | -\s*(?:Error|Warning|Info|Suggestion), ignoring case
BlockStartAt(text, j) ==
    \/ \E k \in 1..3 : /\ j + k <= Len(text)
                      /\ \A m \in 0..(k - 1) : text[j + m] = "#"
                      /\ text[j + k] \in Whitespace
    \/ j + 1 <= Len(text) /\ text[j] = "*" /\ text[j + 1] = "*"
    \/ /\ j <= Len(text)
       /\ text[j] = "-"
       /\ \E k \in AfterSpaces(text, j + 1) : \E w \in BulletWords : WordAt(text, k, w)

\* re.split(r"\n(?=...)", response): cut at, and drop, every newline that a
\* block start follows
RECURSIVE SplitBlocks(_, _, _)
SplitBlocks(text, start, i) ==
    IF i > Len(text) THEN <<SubSeq(text, start, Len(text))>>
    ELSE IF text[i] = "\n" /\ BlockStartAt(text, i + 1)
         THEN <<SubSeq(text, start, i - 1)>> \o SplitBlocks(text, i + 1, i + 1)
         ELSE SplitBlocks(text, start, i + 1)

\* the dicts of the parser as (word, value) pairs in insertion order
severity_map ==
    <<<<<<"e", "r", "r", "o", "r">>, "error">>, <<<<"w", "a", "r", "n", "i", "n", "g">>, "warn">>, <<<<"w", "a", "r", "n">>, "warn">>,
      <<<<"i", "n", "f", "o">>, "info">>, <<<<"s", "u", "g", "g", "e", "s", "t", "i", "o", "n">>, "info">>>>

category_map ==
    <<<<<<"c", "o", "r", "r", "e", "c", "t", "n", "e", "s", "s">>, "correctness">>, <<<<"s", "e", "c", "u", "r", "i", "t", "y">>, "security">>,
      <<<<"p", "e", "r", "f", "o", "r", "m", "a", "n", "c", "e">>, "performance">>, <<<<"s", "t", "y", "l", "e">>, "style">>,
      <<<<"t", "e", "s", "t">>, "correctness">>>>

\* the value of the first word of the map found in text, else the default
FirstKeyword(map, text, default) ==
    LET hits == SelectSeq(map, LAMBDA e : Contains(text, e[1]))
    IN  IF hits = <<>> THEN default ELSE Head(hits)[2]

\* int() of a run of digits
RECURSIVE IntOf(_)
IntOf(ds) ==
    IF ds = <<>> THEN 0
    ELSE 10 * IntOf(SubSeq(ds, 1, Len(ds) - 1)) + (IndexOf(DIGITS, ds[Len(ds)]) - 1)

\* the longest run of digits of text from position k
DigitRun(text, k) ==
    LET ends == {e \in (k - 1)..Len(text) : \A m \in k..e : text[m] \in Range(DIGITS)}
    IN  SubSeq(text, k, CHOOSE e \in ends : \A f \in ends : e >= f)

\* where the digits start when (?:line|L)\s*(\d+) matches at position p
LineRefAt(text, p) ==
    {k \in AfterSpaces(text, p + 4) : WordAt(text, p, <<"l", "i", "n", "e">>) /\ DigitRun(text, k) # <<>>}
    \cup {k \in AfterSpaces(text, p + 1) : WordAt(text, p, <<"l">>) /\ DigitRun(text, k) # <<>>}

NoLine == -1

\* the number of the first line reference of the block, NoLine for None
LineNum(text) ==
    LET at == {p \in 1..Len(text) : LineRefAt(text, p) # {}}
    IN  IF at = {} THEN NoLine
        ELSE LET p == CHOOSE q \in at : \A r \in at : q <= r
                 viaLine == {k \in LineRefAt(text, p) : WordAt(text, p, <<"l", "i", "n", "e">>) /\ k >= p + 4}
                 ks == IF viaLine # {} THEN viaLine ELSE LineRefAt(text, p)
             IN  IntOf(DigitRun(text, CHOOSE k \in ks : \A m \in ks : k >= m))

ReviewFinding(severity, category, location_file, line_num, symbol, message) ==
    [severity |-> severity, category |-> category, location_file |-> location_file,
     location_line_start |-> line_num, location_line_end |-> line_num,
     symbol |-> symbol, message |-> message, suggested_fix |-> None]

\* the finding of one block, none for a block that strips to under 10 characters
BlockFinding(raw, default_file, default_symbol) ==
    LET block == Strip(raw)
        head200 == Prefix(Lower(block), 200)
    IN  IF Len(block) < 10 THEN <<>>
        ELSE <<ReviewFinding(FirstKeyword(severity_map, head200, "info"),
                             FirstKeyword(category_map, head200, "style"),
                             default_file, LineNum(block),
                             IF default_symbol = "" THEN None ELSE default_symbol,
                             Strip(Prefix(block, 500)))>>

_parse_findings_from_response(response, default_file, default_symbol) ==
    LET blocks == SplitBlocks(response, 1, 1)
        findings == Flatten([i \in 1..Len(blocks) |->
                                BlockFinding(blocks[i], default_file, default_symbol)])
    IN  IF findings = <<>> /\ Strip(response) # <<>>
        THEN <<ReviewFinding("info", "style", default_file, NoLine, None,
                             Strip(Prefix(response, 500)))>>
        ELSE findings

(***************************************************************************)
(* run_pipeline (app/services/pipeline.py).  Texts are sequences of        *)
(* one-character strings.  The content of the prompts is not modelled: an  *)
(* LLM call is recorded by its kind and answered by the environment.       *)
(***************************************************************************)
\* the characters of the model in code point order
CODEPOINTS == <<".", "/">> \o DIGITS \o UPPER \o <<"_">> \o LOWER

Ord(c) == IndexOf(CODEPOINTS, c)

\* s < t for Python strings
StrLess(s, t) ==
    \E i \in 1..(Len(t)) :
        /\ \A j \in 1..(i - 1) : j <= Len(s) /\ s[j] = t[j]
        /\ (i > Len(s) \/ Ord(s[i]) < Ord(t[i]))

\* str(n) for n >= 0
RECURSIVE Str(_)
Str(n) == IF n < 10 THEN <<DIGITS[n + 1]>> ELSE Str(n \div 10) \o <<DIGITS[(n % 10) + 1]>>

MaxPerFile == 5

HardCap == 40

kind_order(kind) ==
    CASE kind = "class" -> 0
      [] kind = "function" -> 1
      [] kind = "method" -> 2
      [] kind = "constant" -> 3
      [] OTHER -> 2

\* a before b in sorted(by_file.keys()) followed by the per-file sort on
\* (change_type != "added", kind_order, symbol_name)
ChangeLess(a, b) ==
    \/ StrLess(a.file_path, b.file_path)
    \/ /\ a.file_path = b.file_path
       /\ LET ka == <<IF a.change_type # "added" THEN 1 ELSE 0, kind_order(a.kind)>>
              kb == <<IF b.change_type # "added" THEN 1 ELSE 0, kind_order(b.kind)>>
          IN  \/ ka[1] < kb[1]
              \/ ka[1] = kb[1] /\ ka[2] < kb[2]
              \/ ka = kb /\ StrLess(a.symbol_name, b.symbol_name)

_dedupe_and_limit_symbols(symbol_changes) ==
    LET n == Len(symbol_changes)
        before(j, i) == \/ ChangeLess(symbol_changes[j], symbol_changes[i])
                        \/ ~ChangeLess(symbol_changes[i], symbol_changes[j]) /\ j < i
        rank(i) == 1 + Cardinality({j \in 1..n : before(j, i)})
        in_file(i) == 1 + Cardinality({j \in 1..n :
                            /\ symbol_changes[j].file_path = symbol_changes[i].file_path
                            /\ before(j, i)})
        sorted == [r \in 1..n |-> symbol_changes[CHOOSE i \in 1..n : rank(i) = r]]
        kept == SelectSeq([r \in 1..n |-> CHOOSE i \in 1..n : rank(i) = r],
                          LAMBDA i : in_file(i) <= MaxPerFile)
    IN  PySliceTo([r \in 1..Len(kept) |-> symbol_changes[kept[r]]], HardCap)

_symbol_change_to_node_id(st, change) ==
    LET candidate == change.file_path \o <<":", ":">> \o change.symbol_name
        ids == all_node_ids(st)
        hits == SelectSeq(ids, LAMBDA nid :
                    /\ get_node(st, nid).file_path = change.file_path
                    /\ EndsWith(get_node(st, nid).symbol_name, <<".">> \o change.symbol_name))
    IN  IF get_node(st, candidate) # NoNode THEN candidate
        ELSE IF change.kind = "method" /\ hits # <<>> THEN Head(hits)
        ELSE candidate

\* pipeline.py:264-265
changed_files(p) ==
    {p.file_changes[i].path : i \in {j \in 1..Len(p.file_changes) : p.file_changes[j].language = "python"}}
    \cup {p.symbol_changes[i].file_path : i \in 1..Len(p.symbol_changes)}

MaxImportLines == 30

NO_IMPORT_EDGES == <<"(", "n", "o", " ", "c", "r", "o", "s", "s", "-", "f", "i", "l", "e", " ", "i", "m", "p", "o", "r", "t", " ", "e", "d", "g", "e", "s", " ", "i", "n", " ", "g", "r", "a", "p", "h", ")">>

IsModule(st, id) == get_node(st, id) # NoNode /\ get_node(st, id).kind = "module"

\* lines 131-148 for one changed module: the keys of its outgoing Imports
\* edges to modules, then those of its incoming ones
ModuleImportKeys(st, mod_id) ==
    LET fp == get_node(st, mod_id).file_path
    IN  MapSeq(SelectSeq(neighbors_out(st, mod_id, "IMPORTS"), LAMBDA dst : IsModule(st, dst)),
               LAMBDA dst : <<fp, get_node(st, dst).file_path>>)
        \o MapSeq(SelectSeq(neighbors_in(st, mod_id, "IMPORTS"), LAMBDA src : IsModule(st, src)),
                  LAMBDA src : <<get_node(st, src).file_path, fp>>)

\* the keys in the order the loop meets them, a key a second time included
ImportKeysListed(st, files) ==
    Flatten(MapSeq(SelectSeq(all_node_ids(st),
                       LAMBDA fid : IsModule(st, fid) /\ get_node(st, fid).file_path \in files),
                   LAMBDA fid : ModuleImportKeys(st, fid)))

\* "if key not in seen": the first occurrence of every key
ImportKeys(st, files) ==
    LET listed == ImportKeysListed(st, files)
    IN  SelectSeq([i \in 1..Len(listed) |-> IF \E j \in 1..(i - 1) : listed[j] = listed[i]
                                             THEN <<>> ELSE listed[i]],
                  LAMBDA key : key # <<>>)

ImportLine(key) == <<"-", " ">> \o key[1] \o <<" ", "i", "m", "p", "o", "r", "t", "s", " ">> \o key[2]

\* _build_import_graph (pipeline.py:119-149)
_build_import_graph(st, files) ==
    LET lines == MapSeq(ImportKeys(st, files), ImportLine)
    IN  IF lines = <<>> THEN NO_IMPORT_EDGES
        ELSE Join(PySliceTo(lines, MaxImportLines), <<"\n">>)

\* PythonGraphBuilder.build over the files in the order rglob yields them
RECURSIVE build(_, _, _)
build(st, files, order) ==
    IF order = <<>> THEN st
    ELSE build(_process_file(st, Head(order), files[Head(order)], TRUE), files, Tail(order))

DefaultMaxTokens == 8000

\* the ReviewUnit of one symbol change (pipeline.py:281-289)
UnitOf(st, sc, snippet_text, before, after) ==
    LET node_id == _symbol_change_to_node_id(st, sc)
        context_ids == find(st, RetrievalConfig(DefaultMaxNodes), <<node_id>>, <<node_id>>)
    IN  assemble(st, [nid \in Range(all_node_ids(st)) |-> snippet_text], DefaultMaxTokens,
                 sc, context_ids, before, after)

\* mode = (review_mode or "batched").lower(), unknown modes become batched
BATCHED == <<"b", "a", "t", "c", "h", "e", "d">>

PER_UNIT == <<"p", "e", "r", "_", "u", "n", "i", "t">>

BOTH == <<"b", "o", "t", "h">>

NormalMode(review_mode) ==
    LET mode == Lower(IF review_mode = <<>> THEN BATCHED ELSE review_mode)
    IN  IF mode \in {BATCHED, PER_UNIT, BOTH} THEN mode ELSE BATCHED

FAILED_FILE_CHANGES == <<"F", "a", "i", "l", "e", "d", " ", "t", "o", " ", "g", "e", "t", " ", "f", "i", "l", "e", " ", "c", "h", "a", "n", "g", "e", "s", ":", " ">>

NO_FILE_CHANGES == <<"N", "o", " ", "f", "i", "l", "e", " ", "c", "h", "a", "n", "g", "e", "s", " ", "b", "e", "t", "w", "e", "e", "n", " ", "b", "a", "s", "e", " ", "a", "n", "d", " ", "h", "e", "a", "d", ".">>

FAILED_CHECKOUT == <<"F", "a", "i", "l", "e", "d", " ", "t", "o", " ", "c", "h", "e", "c", "k", "o", "u", "t", " ", "b", "a", "s", "e", "/", "h", "e", "a", "d", ":", " ">>

DETECTED == <<"D", "e", "t", "e", "c", "t", "e", "d", " ">>

NO_SYMBOL_CHANGES == <<" ", "f", "i", "l", "e", "(", "s", ")", " ", "c", "h", "a", "n", "g", "e", "d", ";", " ", "n", "o", " ", "P", "y", "t", "h", "o", "n", " ", "s", "y", "m", "b", "o", "l", "-", "l", "e", "v", "e", "l", " ", "c", "h", "a", "n", "g", "e", "s", ".">>

LLM_REVIEW_FAILED == <<"L", "L", "M", " ", "r", "e", "v", "i", "e", "w", " ", "f", "a", "i", "l", "e", "d", ":", " ">>

NO_REVIEW_OUTPUT == <<"N", "o", " ", "r", "e", "v", "i", "e", "w", " ", "o", "u", "t", "p", "u", "t", ".">>

\* the llm of a run that has not reached line 267
NoLLM == [kind |-> "none", _error |-> <<>>]

\* the state of a run before its first step
PipeStart(review_mode) ==
    [pc |-> "get_file_changes", review_mode |-> review_mode, mode |-> <<>>,
     file_changes |-> <<>>, symbol_changes |-> <<>>, graph_built |-> FALSE,
     units |-> <<>>, llm_calls |-> <<>>, findings |-> <<>>, unit_reviews |-> <<>>,
     combined_review |-> NoneText, summary |-> <<>>, result |-> <<>>, raised |-> None,
     provider_raised |-> None, llm |-> NoLLM]

\* return of a tuple
Return(p, result) == [p EXCEPT !.pc = "returned", !.result = result]

\* an exception leaving run_pipeline
Raise(p, exception) == [p EXCEPT !.pc = "raised", !.raised = exception]

\* outcomes of a call into the environment (diff provider, LLM client)
Returns(value) == [ok |-> TRUE, value |-> value]

Raises(e) == [ok |-> FALSE, e |-> e]

\* except-branch of get_file_changes (pipeline.py:237-239)
FileChangesFailed(p, e) ==
    Return([p EXCEPT !.provider_raised = "get_file_changes"],
           <<FAILED_FILE_CHANGES \o e, <<>>, "failed">>)

\* the except-branch of the checkout letting the exception through
CheckoutFailedPropagates(p, e) ==
    Raise([p EXCEPT !.provider_raised = "checkout"], "Exception")

\* except-branch of get_base_path / get_head_path (pipeline.py:247-249)
CheckoutFailed(p, e) ==
    Return([p EXCEPT !.provider_raised = "checkout"],
           <<FAILED_CHECKOUT \o e, <<>>, "failed">>)

\* lines 312-316: the summary of per_unit mode and the final return
FinalReturn(p) ==
    LET summary == IF p.mode # PER_UNIT THEN p.summary
                   ELSE IF p.combined_review \in {NoneText, <<>>} THEN NO_REVIEW_OUTPUT
                   ELSE p.combined_review
    IN  Return([p EXCEPT !.summary = summary],
               <<summary, p.findings, "completed", p.unit_reviews, p.combined_review>>)

LLM_ERROR == <<"[", "L", "L", "M", " ", "e", "r", "r", "o", "r", ":", " ">>

(***************************************************************************)
(* get_llm_client and the clients of degraded mode (client.py:158-236).    *)
(***************************************************************************)
OPENAI == <<"o", "p", "e", "n", "a", "i">>

GEMINI == <<"g", "e", "m", "i", "n", "i">>

\* the settings get_llm_client reads; init_error is the exception the
\* construction of the LangChain model raises, or NoneText
Settings(llm_provider, openai_api_key, gemini_api_key, init_error) ==
    [llm_provider |-> llm_provider, openai_api_key |-> openai_api_key,
     gemini_api_key |-> gemini_api_key, init_error |-> init_error]

_NoOpClient(error_message) == [kind |-> "_NoOpClient", _error |-> error_message]

LocalModelClient == [kind |-> "LocalModelClient", _error |-> <<>>]

\* a LangChainChatClient, or a client handed to run_pipeline by its caller
ChatClient == [kind |-> "LangChainChatClient", _error |-> <<>>]

KEY_NOT_SET == <<"_", "A", "P", "I", "_", "K", "E", "Y", " ", "n", "o", "t", " ", "s", "e", "t", "]">>

INIT_ERROR == <<" ", "i", "n", "i", "t", " ", "e", "r", "r", "o", "r", ":", " ">>

LOCAL_NOT_IMPLEMENTED == <<"[", "L", "o", "c", "a", "l", " ", "m", "o", "d", "e", "l", " ", "n", "o", "t", " ", "i", "m", "p", "l", "e", "m", "e", "n", "t", "e", "d", ";", " ", "s", "e", "t", " ", "L", "L", "M", "_", "P", "R", "O", "V", "I", "D", "E", "R", "=", "o", "p", "e", "n", "a", "i", " ", "o", "r", " ", "g", "e", "m", "i", "n", "i", "]">>

get_llm_client(settings) ==
    LET provider == Lower(settings.llm_provider)
    IN  IF provider = OPENAI
        THEN IF settings.openai_api_key = <<>>
             THEN _NoOpClient(<<"[", "O", "P", "E", "N", "A", "I">> \o KEY_NOT_SET)
             ELSE IF settings.init_error = NoneText THEN ChatClient
             ELSE _NoOpClient(<<"[", "O", "p", "e", "n", "A", "I">> \o INIT_ERROR
                              \o settings.init_error \o <<"]">>)
        ELSE IF provider = GEMINI
        THEN IF settings.gemini_api_key = <<>>
             THEN _NoOpClient(<<"[", "G", "E", "M", "I", "N", "I">> \o KEY_NOT_SET)
             ELSE IF settings.init_error = NoneText THEN ChatClient
             ELSE _NoOpClient(<<"[", "G", "e", "m", "i", "n", "i">> \o INIT_ERROR
                              \o settings.init_error \o <<"]">>)
        ELSE LocalModelClient

\* what llm.complete can do: a degraded client returns its fixed string, any
\* other client returns a text or raises
CompleteOutcomes(llm, texts, errors) ==
    CASE llm.kind = "_NoOpClient" -> {Returns(llm._error)}
      [] llm.kind = "LocalModelClient" -> {Returns(LOCAL_NOT_IMPLEMENTED)}
      [] llm.kind = "LangChainChatClient" ->
            {Raises(e) : e \in errors} \cup {Returns(t) : t \in texts}
      [] OTHER -> {}

(***************************************************************************)
(* LangChainChatClient (app/llm/client.py).  Time is counted in ticks; a   *)
(* task is a coroutine on one event loop, so what runs between two awaits  *)
(* is one step.                                                            *)
(***************************************************************************)
\* __init__ (lines 56-69)
LangChainChatClient(max_retries, retry_delay, min_interval) ==
    [max_retries |-> max_retries, retry_delay |-> retry_delay, _last_request_time |-> 0, _min_interval |-> min_interval]

DefaultMaxRetries == 3

\* _wait_rate_limit entered at time t: the time it returns at; time.sleep
\* holds the whole event loop until then
WaitUntil(c, t) ==
    LET elapsed == t - c._last_request_time
    IN  IF elapsed < c._min_interval THEN t + (c._min_interval - elapsed) ELSE t

_wait_rate_limit(c, t) == [c EXCEPT !._last_request_time = WaitUntil(c, t)]

\* what the model hands back: a message whose content is a str, a list of
\* parts or None, or an object without content
Message(text) == [kind |-> "str", text |-> text, parts |-> <<>>]

MessageOfParts(parts) == [kind |-> "list", text |-> <<>>, parts |-> parts]

MessageOfNone == [kind |-> "none", text |-> <<>>, parts |-> <<>>]

Plain(text) == [kind |-> "other", text |-> text, parts |-> <<>>]

\* lines 93-98: the text complete returns for a result
ResultText(result) ==
    CASE result.kind = "none" -> <<>>
      [] result.kind = "list" -> Strip(Flatten(result.parts))
      [] OTHER -> Strip(result.text)

\* f"[LLM error: {e}]"
LLMError(e) == LLM_ERROR \o e \o <<"]">>

\* a task that has not called the client yet
NewTask ==
    [pc |-> "idle", method |-> "none", attempt |-> 0, wake_at |-> 0, outcomes |-> <<>>, slept |-> <<>>, result |-> NoneText, yielded |-> <<>>]

\* one request reaching the model
Request(t, attempt, at) == [task |-> t, attempt |-> attempt, at |-> at]

\* the task notes how an attempt ended
Ended(task, outcome) == [task EXCEPT !.outcomes = Append(@, outcome)]

\* line 97 / 98: return
ReturnText(task, text) == [task EXCEPT !.pc = "returned", !.result = text]

\* the except-branch backing off by retry_delay whatever the attempt
ExceptBranchFlat(c, task, e, t) ==
    IF task.attempt = c.max_retries - 1 THEN ReturnText(task, LLMError(e))
    ELSE [task EXCEPT !.pc = "sleeping", !.wake_at = t + c.retry_delay, !.slept = Append(@, c.retry_delay)]

\* lines 99-102: the except-branch of attempt task.attempt at time t
ExceptBranch(c, task, e, t) ==
    IF task.attempt = c.max_retries - 1 THEN ReturnText(task, LLMError(e))
    ELSE [task EXCEPT !.pc = "sleeping", !.wake_at = t + c.retry_delay * (task.attempt + 1), !.slept = Append(@, c.retry_delay * (task.attempt + 1))]

\* lines 115-133: what complete_stream yields for the chunks the model
\* streamed and the error that ended the stream, if any
Yielded(chunks, e) ==
    SelectSeq(chunks, LAMBDA text : text # <<>>) \o (IF e = NoneText THEN <<>> ELSE <<LLMError(e)>>)

(***************************************************************************)
(* Inputs.                                                                 *)
(***************************************************************************)
NodeIds == {"n1", "n2", "n3"}

\* an id no store of the model holds
GhostId == "ghost"

NoCall == [op |-> "none"]

NoFind == [seeds |-> <<>>, max_nodes_per_unit |-> 0, calls |-> 0]

NoDiff == [base |-> <<>>, head |-> <<>>, calls |-> 0]

NoAsm == [snippet_of |-> <<>>, max_tokens |-> 0, context_node_ids |-> <<>>, calls |-> 0]

AsmIdle == asm_in = NoAsm /\ asm_out = <<>>

NoParse == [response |-> <<>>, calls |-> 0]

ParseIdle == parse_in = NoParse /\ parse_out = <<>>

PipeIdle == pl = [pc |-> "idle"]

NoClient == [max_retries |-> 0, retry_delay |-> 0, _last_request_time |-> 0, _min_interval |-> 0]

NoExtract == [tree |-> <<>>, calls |-> 0]

ExtractIdle == ex_in = NoExtract /\ ex_out = <<>>

AstIdle == worktrees = <<>>

ClientIdle == now = 0 /\ client = NoClient /\ tasks = <<>> /\ requests = <<>>

(***************************************************************************)
(* SpecStore: any sequence of add_node / add_edge calls on a fresh store.  *)
(***************************************************************************)
StoreIds == {"n1", "n2"}

StorePayloads == {GraphNode("function", FALSE), GraphNode("module", TRUE)}

InitStore ==
    /\ store = EmptyStore
    /\ inserted = {}
    /\ last_call = NoCall
    /\ ops = 0
    /\ find_in = NoFind
    /\ find_scores = <<>>
    /\ find_out = <<>>
    /\ repo = <<>>
    /\ pending = {}
    /\ diff_in = NoDiff
    /\ diff_out = <<>>
    /\ AsmIdle
    /\ ParseIdle
    /\ AstIdle
    /\ ExtractIdle
    /\ ClientIdle
    /\ PipeIdle

AddNode(id, n) ==
    /\ ops < MaxOps
    /\ store' = add_node(store, id, n)
    /\ last_call' = [op |-> "add_node", id |-> id]
    /\ ops' = ops + 1
    /\ UNCHANGED <<inserted, findVars, buildVars, diffVars, asmVars, parseVars, pipeVars, clientVars, extractVars, astVars>>

AddEdge(src, dst, t) ==
    /\ ops < MaxOps
    /\ store' = add_edge(store, src, dst, t)
    /\ inserted' = IF has_node(store, src) /\ has_node(store, dst)
                   THEN inserted \cup {<<src, dst, t>>}
                   ELSE inserted
    /\ last_call' = [op |-> "add_edge", src |-> src, dst |-> dst, type |-> t]
    /\ ops' = ops + 1
    /\ UNCHANGED <<findVars, buildVars, diffVars, asmVars, parseVars, pipeVars, clientVars, extractVars, astVars>>

NextStore ==
    \/ \E id \in StoreIds, n \in StorePayloads : AddNode(id, n)
    \/ \E src \in StoreIds, dst \in StoreIds, t \in EdgeTypes : AddEdge(src, dst, t)

SpecStore == InitStore /\ [][NextStore]_vars

(***************************************************************************)
(* SpecFind: find applied to a built store.  The store holds n1 (a         *)
(* function), n2 (a function or a node of kind test) and n3 (a function or *)
(* a test-file module).  Its edges come from at most MaxEdges add_edge     *)
(* calls between distinct nodes, or from the Imports edges to n3 that the  *)
(* builder emits from the symbols of a file to its module and from a       *)
(* module that imports itself, followed by at most MaxFileEdges add_edge   *)
(* calls between distinct nodes.                                           *)
(***************************************************************************)
RECURSIVE AddNodes(_, _, _)
AddNodes(st, ids, payload) ==
    IF ids = <<>> THEN st
    ELSE AddNodes(add_node(st, Head(ids), payload[Head(ids)]), Tail(ids), payload)

RECURSIVE AddEdges(_, _)
AddEdges(st, es) ==
    IF es = <<>> THEN st
    ELSE AddEdges(add_edge(st, Head(es)[1], Head(es)[2], Head(es)[3]), Tail(es))

FindPayloads ==
    {p \in [NodeIds -> {GraphNode("function", FALSE), GraphNode("test", FALSE),
                        GraphNode("module", TRUE)}] :
        /\ p["n1"].kind = "function"
        /\ p["n2"].kind # "module"
        /\ p["n3"].kind # "test"}

BelongsTo ==
    <<<<"n1", "n3", "IMPORTS">>, <<"n2", "n3", "IMPORTS">>, <<"n3", "n3", "IMPORTS">>>>

EdgeCalls == {e \in NodeIds \X NodeIds \X EdgeTypes : e[1] # e[2]}

EdgeCallSeqs ==
    SeqsBetween(EdgeCalls, 0, MaxEdges)
    \cup {BelongsTo \o es : es \in SeqsBetween(EdgeCalls, 0, MaxFileEdges)}

BuiltStores ==
    {AddEdges(AddNodes(EmptyStore, <<"n1", "n2", "n3">>, payload), es) :
        payload \in FindPayloads, es \in EdgeCallSeqs}

SeedIds == {"n1", "n2", GhostId}

Budgets == {0, MaxBudget, DefaultMaxNodes}

InitFind ==
    /\ store \in BuiltStores
    /\ inserted = {}
    /\ last_call = NoCall
    /\ ops = 0
    /\ find_in = NoFind
    /\ find_scores = <<>>
    /\ find_out = <<>>
    /\ repo = <<>>
    /\ pending = {}
    /\ diff_in = NoDiff
    /\ diff_out = <<>>
    /\ AsmIdle
    /\ ParseIdle
    /\ AstIdle
    /\ ExtractIdle
    /\ ClientIdle
    /\ PipeIdle

Find(changed_node_ids, max_nodes, seed_order) ==
    /\ find_in.calls < 1
    /\ find_in' = [seeds |-> changed_node_ids, max_nodes_per_unit |-> max_nodes,
                   calls |-> find_in.calls + 1]
    /\ LET cfg == RetrievalConfig(max_nodes)
           b == find_bfs(store, cfg, changed_node_ids, seed_order)
       IN  /\ find_scores' = IF changed_node_ids = <<>> THEN <<>> ELSE b.scores
           /\ find_out' = IF changed_node_ids = <<>> THEN <<>>
                          ELSE find_rank(store, cfg, b)
    /\ UNCHANGED <<storeVars, buildVars, diffVars, asmVars, parseVars, pipeVars, clientVars, extractVars, astVars>>

NextFind ==
    /\ find_in.calls < 1
    /\ \E changed_node_ids \in SeqsBetween(SeedIds, 0, MaxSeeds), max_nodes \in Budgets :
          \E seed_order \in Orderings(Range(changed_node_ids)) :
              Find(changed_node_ids, max_nodes, seed_order)

SpecFind == InitFind /\ [][NextFind]_vars

(***************************************************************************)
(* SpecBuild: PythonGraphBuilder.build over a head worktree that holds     *)
(* foo.py and test_foo.py.  rglob yields the files in an order the file    *)
(* system decides, so each step visits any file not yet visited.           *)
(***************************************************************************)
FOO_PY == <<"f", "o", "o", ".", "p", "y">>

TEST_FOO_PY == <<"t", "e", "s", "t", "_", "f", "o", "o", ".", "p", "y">>

FOO == <<"f", "o", "o">>

BAR == <<"b", "a", "r">>

X == <<"x">>

KLASS == <<"K">>

BASE == <<"B">>

TEST_FOO == <<"t", "e", "s", "t", "_", "f", "o", "o">>

FooFunctionDefs ==
    {FunctionDef(name, calls) : name \in {FOO, BAR}, calls \in {<<>>, <<FOO>>, <<BAR>>}}

FooStmts ==
    FooFunctionDefs
    \cup {ClassDef(KLASS, <<>>, body) :
            body \in {<<>>, <<FunctionDef(FOO, <<BAR>>)>>, <<FunctionDef(BAR, <<>>)>>}}
    \cup {ClassDef(BASE, <<KLASS>>, <<>>)}

FooTrees == SeqsBetween(FooStmts, 0, MaxDefs)

TestTrees ==
    {imports \o defs :
        imports \in {<<ImportFrom(FOO, <<FOO>>)>>, <<Import(<<FOO>>)>>},
        defs \in {<<>>, <<FunctionDef(TEST_FOO, <<FOO>>)>>}}

InitBuild ==
    /\ store = EmptyStore
    /\ inserted = {}
    /\ last_call = NoCall
    /\ ops = 0
    /\ find_in = NoFind
    /\ find_scores = <<>>
    /\ find_out = <<>>
    /\ repo \in {(FOO_PY :> a) @@ (TEST_FOO_PY :> b) : a \in FooTrees, b \in TestTrees}
    /\ pending = DOMAIN repo
    /\ diff_in = NoDiff
    /\ diff_out = <<>>
    /\ AsmIdle
    /\ ParseIdle
    /\ AstIdle
    /\ ExtractIdle
    /\ ClientIdle
    /\ PipeIdle

\* one pass of the loop of build
ProcessFile(file_path) ==
    /\ file_path \in pending
    /\ store' = _process_file(store, file_path, repo[file_path], TRUE)
    /\ pending' = pending \ {file_path}
    /\ UNCHANGED <<inserted, last_call, ops, findVars, repo, diffVars, asmVars, parseVars, pipeVars, clientVars, extractVars, astVars>>

NextBuild == \E file_path \in DOMAIN repo : ProcessFile(file_path)

SpecBuild == InitBuild /\ [][NextBuild]_vars

\* build has returned
Built == repo # <<>> /\ pending = {}

(***************************************************************************)
(* SpecDiff: PythonSemanticDiffer.diff applied to the symbol tables of one *)
(* file at base and at head.                                               *)
(***************************************************************************)
CLASS_A == <<"A">>

\* a function f and what an edit of it can change, the method A.f, and g
DiffSymbols ==
    {SymbolInfo("f", "function", 1, 2, "f()", None, <<>>, NoParent),
     SymbolInfo("f", "function", 1, 2, "f(x)", None, <<>>, NoParent),
     SymbolInfo("f", "function", 1, 2, "f()", "doc", <<>>, NoParent),
     SymbolInfo("f", "function", 1, 2, "f()", None, <<"d">>, NoParent),
     SymbolInfo("f", "function", 1, 3, "f()", None, <<>>, NoParent),
     SymbolInfo("f", "method", 1, 2, "f(self)", None, <<>>, CLASS_A),
     SymbolInfo("g", "function", 4, 5, "g()", None, <<>>, NoParent)}

SymbolTables == SeqsBetween(DiffSymbols, 0, MaxSymbols)

InitDiff ==
    /\ store = EmptyStore
    /\ inserted = {}
    /\ last_call = NoCall
    /\ ops = 0
    /\ find_in = NoFind
    /\ find_scores = <<>>
    /\ find_out = <<>>
    /\ repo = <<>>
    /\ pending = {}
    /\ diff_in = NoDiff
    /\ diff_out = <<>>
    /\ AsmIdle
    /\ ParseIdle
    /\ AstIdle
    /\ ExtractIdle
    /\ ClientIdle
    /\ PipeIdle

Diff(base_symbols, head_symbols) ==
    /\ diff_in.calls < 1
    /\ diff_in' = [base |-> base_symbols, head |-> head_symbols, calls |-> 1]
    /\ diff_out' = diff("f.py", base_symbols, head_symbols)
    /\ UNCHANGED <<storeVars, findVars, buildVars, asmVars, parseVars, pipeVars, clientVars, extractVars, astVars>>

NextDiff ==
    /\ diff_in.calls < 1
    /\ \E base_symbols \in SymbolTables, head_symbols \in SymbolTables :
          Diff(base_symbols, head_symbols)

SpecDiff == InitDiff /\ [][NextDiff]_vars

(***************************************************************************)
(* SpecAsm: ContextAssembler.assemble over a store holding n1 and n2, for  *)
(* every content of their files, every context list (ids of the store and  *)
(* an unknown id), every budget and every before/after snippet.            *)
(***************************************************************************)
AsmStore ==
    AddNodes(EmptyStore, <<"n1", "n2">>,
             [id \in {"n1", "n2"} |-> GraphNode("function", FALSE)])

\* what _read_snippet can return: nothing, blanks, texts of 1, 2 and 3 tokens
SnippetTexts == {<<>>, Rep(" ", 2), Rep("x", 3), Rep("x", 8), Rep("x", 12)}

\* what _load_before_after can return for one side
SideSnippets == {<<>>, Rep("x", 4), Rep("x", 9)}

AsmChange == [file_path |-> "f.py", symbol_name |-> "f", kind |-> "function",
              change_type |-> "modified", descriptors |-> <<"signature_change">>,
              line_start |-> 1, line_end |-> 2]

InitAsm ==
    /\ store = AsmStore
    /\ inserted = {}
    /\ last_call = NoCall
    /\ ops = 0
    /\ find_in = NoFind
    /\ find_scores = <<>>
    /\ find_out = <<>>
    /\ repo = <<>>
    /\ pending = {}
    /\ diff_in = NoDiff
    /\ diff_out = <<>>
    /\ AsmIdle
    /\ ParseIdle
    /\ AstIdle
    /\ ExtractIdle
    /\ ClientIdle
    /\ PipeIdle

Assemble(snippet_of, max_tokens, context_node_ids, before_snippet, after_snippet) ==
    /\ asm_in.calls < 1
    /\ asm_in' = [snippet_of |-> snippet_of, max_tokens |-> max_tokens,
                  context_node_ids |-> context_node_ids, calls |-> 1]
    /\ asm_out' = assemble(store, snippet_of, max_tokens, AsmChange, context_node_ids,
                           before_snippet, after_snippet)
    /\ UNCHANGED <<storeVars, findVars, buildVars, diffVars, parseVars, pipeVars, clientVars, extractVars, astVars>>

NextAsm ==
    /\ asm_in.calls < 1
    /\ \E snippet_of \in [{"n1", "n2"} -> SnippetTexts], max_tokens \in 0..MaxTokens,
          context_node_ids \in SeqsBetween({"n1", "n2", GhostId}, 0, MaxContext),
          before_snippet \in SideSnippets, after_snippet \in SideSnippets :
          Assemble(snippet_of, max_tokens, context_node_ids, before_snippet, after_snippet)

SpecAsm == InitAsm /\ [][NextAsm]_vars

(***************************************************************************)
(* SpecParse: _parse_findings_from_response applied to LLM responses put   *)
(* together from a few pieces.                                             *)
(***************************************************************************)
ResponsePieces ==
    {<<" ">>, <<"\n">>, <<"#", "#", " ">>, <<"*", "*">>, <<"-", " ", "E", "r", "r", "o", "r">>, Rep("x", 10), <<"a", "b", "c">>,
     <<"l", "i", "n", "e", " ", "7">>, <<"s", "e", "c", "u", "r", "i", "t", "y">>}

Responses == {Flatten(ps) : ps \in SeqsBetween(ResponsePieces, 0, MaxPieces)}

InitParse ==
    /\ store = EmptyStore
    /\ inserted = {}
    /\ last_call = NoCall
    /\ ops = 0
    /\ find_in = NoFind
    /\ find_scores = <<>>
    /\ find_out = <<>>
    /\ repo = <<>>
    /\ pending = {}
    /\ diff_in = NoDiff
    /\ diff_out = <<>>
    /\ AsmIdle
    /\ ParseIdle
    /\ AstIdle
    /\ ExtractIdle
    /\ ClientIdle
    /\ PipeIdle

Parse(response) ==
    /\ parse_in.calls < 1
    /\ parse_in' = [response |-> response, calls |-> 1]
    /\ parse_out' = _parse_findings_from_response(response, "f.py", "f")
    /\ UNCHANGED <<storeVars, findVars, buildVars, diffVars, asmVars, pipeVars, clientVars, extractVars, astVars>>

NextParse ==
    /\ parse_in.calls < 1
    /\ \E response \in Responses : Parse(response)

SpecParse == InitParse /\ [][NextParse]_vars

(***************************************************************************)
(* SpecPipe: one run of run_pipeline, for every review mode, every outcome *)
(* of the diff provider, of run_ast_diff and of the LLM client.            *)
(***************************************************************************)
ReviewModes == {BATCHED, PER_UNIT, <<"B", "o", "t", "h">>, <<"f", "a", "s", "t">>, <<>>}

PipeRepos ==
    {(FOO_PY :> foo_tree) @@
     (TEST_FOO_PY :> <<ImportFrom(FOO, <<FOO>>), FunctionDef(TEST_FOO, <<FOO>>)>>) :
        foo_tree \in {<<FunctionDef(FOO, <<BAR>>), FunctionDef(BAR, <<>>)>>,
                      <<ClassDef(KLASS, <<>>, <<FunctionDef(FOO, <<BAR>>)>>),
                        FunctionDef(BAR, <<>>)>>}}

FileChange(path, change_type, language) ==
    [path |-> path, change_type |-> change_type, language |-> language]

FileChanges == {FileChange(FOO_PY, "modified", "python"),
                FileChange(TEST_FOO_PY, "added", "python")}

PipeChange(file_path, symbol_name, kind, change_type) ==
    [file_path |-> file_path, symbol_name |-> symbol_name, kind |-> kind,
     change_type |-> change_type, descriptors |-> <<change_type>>,
     line_start |-> 1, line_end |-> 2]

PipeChanges == {PipeChange(FOO_PY, FOO, "function", "modified"),
                PipeChange(FOO_PY, BAR, "function", "added"),
                PipeChange(FOO_PY, FOO, "method", "modified"),
                PipeChange(TEST_FOO_PY, TEST_FOO, "function", "removed")}

ProviderErrors == {<<"b", "o", "o", "m">>}

LLMTexts == {<<>>, <<"L", "G", "T", "M">>, <<"#", "#", " ", "E", "r", "r", "o", "r", ":", " ", "o", "f", "f", " ", "b", "y", " ", "o", "n", "e", " ", "a", "t", " ", "l", "i", "n", "e", " ", "3", "\n", "-", " ", "W", "a", "r", "n", "i", "n", "g", ":", " ", "s", "l", "o", "w", " ", "l", "o", "o", "p">>}

\* a provider with its key, one without, one whose model cannot be built,
\* and a provider get_llm_client does not know
PipeSettings ==
    {Settings(<<"O", "p", "e", "n", "A", "I">>, <<"k">>, <<>>, NoneText),
     Settings(OPENAI, <<>>, <<>>, NoneText),
     Settings(GEMINI, <<>>, <<"k">>, <<"b", "o", "o", "m">>),
     Settings(<<"l", "o", "c", "a", "l">>, <<>>, <<>>, NoneText)}

InitPipe ==
    /\ store = EmptyStore
    /\ inserted = {}
    /\ last_call = NoCall
    /\ ops = 0
    /\ find_in = NoFind
    /\ find_scores = <<>>
    /\ find_out = <<>>
    /\ repo \in PipeRepos
    /\ pending = {}
    /\ diff_in = NoDiff
    /\ diff_out = <<>>
    /\ AsmIdle
    /\ ParseIdle
    /\ AstIdle
    /\ ExtractIdle
    /\ ClientIdle
    /\ \E review_mode \in ReviewModes : pl = PipeStart(review_mode)

PipeFrame == UNCHANGED <<inserted, last_call, ops, findVars, buildVars, diffVars, asmVars, parseVars, clientVars, extractVars, astVars>>

\* pipeline.py:234-241
GetFileChanges(outcome) ==
    /\ pl.pc = "get_file_changes"
    /\ pl' = IF ~outcome.ok THEN FileChangesFailed(pl, outcome.e)
             ELSE IF outcome.value = <<>>
             THEN Return(pl, <<NO_FILE_CHANGES, <<>>, "completed">>)
             ELSE [pl EXCEPT !.pc = "checkout", !.file_changes = outcome.value]
    /\ UNCHANGED store
    /\ PipeFrame

\* pipeline.py:243-249
Checkout(outcome) ==
    /\ pl.pc = "checkout"
    /\ pl' = IF ~outcome.ok THEN CheckoutFailed(pl, outcome.e)
             ELSE [pl EXCEPT !.pc = "ast_diff"]
    /\ UNCHANGED store
    /\ PipeFrame

\* pipeline.py:251-257; symbol_changes is what run_ast_diff returns
AstDiff(symbol_changes) ==
    /\ pl.pc = "ast_diff"
    /\ pl' = IF symbol_changes = <<>>
             THEN Return(pl, <<DETECTED \o Str(Len(pl.file_changes)) \o NO_SYMBOL_CHANGES,
                               <<>>, "completed">>)
             ELSE [pl EXCEPT !.pc = "build",
                             !.symbol_changes = _dedupe_and_limit_symbols(symbol_changes)]
    /\ UNCHANGED store
    /\ PipeFrame

\* pipeline.py:259-275; order is the order in which rglob yields the files,
\* settings what get_llm_client reads at line 267
BuildGraph(order, settings) ==
    /\ pl.pc = "build"
    /\ store' = build(EmptyStore, repo, order)
    /\ pl' = [pl EXCEPT !.graph_built = TRUE,
                        !.llm = get_llm_client(settings),
                        !.mode = NormalMode(pl.review_mode),
                        !.pc = IF NormalMode(pl.review_mode) \in {PER_UNIT, BOTH}
                               THEN "per_unit" ELSE "batched"]
    /\ PipeFrame

\* pipeline.py:277-291: the units are assembled, then the call of
\* orchestrator.run_per_unit, a method ReviewOrchestrator does not have,
\* raises AttributeError out of run_pipeline
PerUnit(snippet_text, before, after) ==
    /\ pl.pc = "per_unit"
    /\ pl' = Raise([pl EXCEPT !.units =
                       [i \in 1..Len(pl.symbol_changes) |->
                           UnitOf(store, pl.symbol_changes[i], snippet_text, before, after)]],
                   "AttributeError")
    /\ store' = StoreAfterReads(store,
                    [i \in 1..Len(pl.symbol_changes) |->
                        pl.symbol_changes[i].file_path \o <<":", ":">> \o pl.symbol_changes[i].symbol_name]
                    \o Flatten([i \in 1..Len(pl.symbol_changes) |->
                           find(store, RetrievalConfig(DefaultMaxNodes),
                                <<_symbol_change_to_node_id(store, pl.symbol_changes[i])>>,
                                <<_symbol_change_to_node_id(store, pl.symbol_changes[i])>>)]))
    /\ PipeFrame

\* pipeline.py:295-316: the batched call and the return
Batched(outcome) ==
    /\ pl.pc = "batched"
    /\ outcome \in CompleteOutcomes(pl.llm, LLMTexts, ProviderErrors)
    /\ LET called == [pl EXCEPT !.llm_calls = Append(@, [kind |-> "batched", import_graph |-> _build_import_graph(store, changed_files(pl))])]
       IN  pl' = IF ~outcome.ok
                 THEN Return(called, <<LLM_REVIEW_FAILED \o outcome.e, <<>>, "failed",
                                       pl.unit_reviews, pl.combined_review>>)
                 ELSE FinalReturn([called EXCEPT
                          !.summary = outcome.value,
                          !.findings = @ \o _parse_findings_from_response(outcome.value, "", "")])
    /\ store' = StoreAfterReads(store, all_node_ids(store))
    /\ PipeFrame

NextPipe ==
    \/ \E outcome \in {Raises(e) : e \in ProviderErrors}
                      \cup {Returns(v) : v \in SeqsBetween(FileChanges, 0, MaxFiles)} :
          GetFileChanges(outcome)
    \/ \E outcome \in {Raises(e) : e \in ProviderErrors} \cup {Returns(<<>>)} :
          Checkout(outcome)
    \/ \E symbol_changes \in SeqsBetween(PipeChanges, 0, MaxChanges) : AstDiff(symbol_changes)
    \/ \E order \in Orderings(DOMAIN repo), settings \in PipeSettings : BuildGraph(order, settings)
    \/ \E snippet_text \in {<<>>, Rep("x", 8)}, before \in {<<>>, Rep("x", 4)},
          after \in {<<>>, Rep("x", 4)} : PerUnit(snippet_text, before, after)
    \/ \E outcome \in CompleteOutcomes(pl.llm, LLMTexts, ProviderErrors) : Batched(outcome)

SpecPipe == InitPipe /\ [][NextPipe]_vars

(***************************************************************************)
(* SpecAstDiff: run_pipeline over a base and a head worktree that hold     *)
(* foo.py in one of its versions, or not at all; the symbol changes are    *)
(* those run_ast_diff computes from the worktrees.                         *)
(***************************************************************************)
\* def foo(): ...            lines 1-2
\* def foo(): bar(); ...     lines 1-3, the body edited
\* def foo(x): ...           lines 1-2, the signature edited
\* def foo(): "doc"; ...     lines 1-3, a docstring added
FooVersions ==
    {<<FunctionDef(FOO, <<>>) @@ [lineno |-> 1, end_lineno |-> 2]>>,
     <<FunctionDef(FOO, <<BAR>>) @@ [lineno |-> 1, end_lineno |-> 3]>>,
     <<FunctionDef(FOO, <<>>) @@ [lineno |-> 1, end_lineno |-> 2, args |-> [NoArgs EXCEPT !.args = <<X>>]]>>,
     <<FunctionDef(FOO, <<>>) @@ [lineno |-> 1, end_lineno |-> 3, docstring |-> "doc"]>>}

\* a worktree: empty, or foo.py with a version that parses, or foo.py with a
\* syntax error
Worktrees ==
    {<<>>, FOO_PY :> File(FALSE, <<>>)} \cup {FOO_PY :> File(TRUE, tree) : tree \in FooVersions}

AstFileChanges ==
    {FileChange(FOO_PY, change_type, "python") :
        change_type \in {"added", "modified", "removed", "renamed", "copied"}}

\* the files of a worktree the graph builder processes
Parsed(worktree) ==
    [file_path \in {p \in DOMAIN worktree : worktree[p].parses} |-> worktree[file_path].tree]

InitAstDiff ==
    /\ store = EmptyStore
    /\ inserted = {}
    /\ last_call = NoCall
    /\ ops = 0
    /\ find_in = NoFind
    /\ find_scores = <<>>
    /\ find_out = <<>>
    /\ \E base \in Worktrees, head \in Worktrees : worktrees = [base |-> base, head |-> head]
    /\ repo = Parsed(worktrees.head)
    /\ pending = {}
    /\ diff_in = NoDiff
    /\ diff_out = <<>>
    /\ AsmIdle
    /\ ParseIdle
    /\ ExtractIdle
    /\ ClientIdle
    /\ \E review_mode \in {BATCHED, PER_UNIT} : pl = PipeStart(review_mode)

\* pipeline.py:251-257 with run_ast_diff over the two worktrees
RunAstDiff == AstDiff(run_ast_diff(pl.file_changes, worktrees.base, worktrees.head))

NextAstDiff ==
    \/ \E outcome \in {Raises(e) : e \in ProviderErrors}
                      \cup {Returns(v) : v \in SeqsBetween(AstFileChanges, 0, MaxFiles)} :
          GetFileChanges(outcome)
    \/ \E outcome \in {Raises(e) : e \in ProviderErrors} \cup {Returns(<<>>)} :
          Checkout(outcome)
    \/ RunAstDiff
    \/ \E order \in Orderings(DOMAIN repo) : BuildGraph(order, Settings(OPENAI, <<"k">>, <<>>, NoneText))
    \/ \E snippet_text \in {<<>>, Rep("x", 8)} : PerUnit(snippet_text, <<>>, <<>>)
    \/ \E outcome \in CompleteOutcomes(pl.llm, LLMTexts, ProviderErrors) : Batched(outcome)

SpecAstDiff == InitAstDiff /\ [][NextAstDiff]_vars

(***************************************************************************)
(* SpecClient: two tasks share one LangChainChatClient; each calls         *)
(* complete or complete_stream once, the model answers or fails as it      *)
(* likes, and time passes.                                                 *)
(***************************************************************************)
MaxTime == 6         \* ticks the clock of SpecClient runs for

Tasks == {"t1", "t2"}

\* (retry_delay, min_interval): the defaults, 1.0 s and 0.5 s, in ticks of
\* half a second, and the two the other way round
Timings == {<<2, 1>>, <<1, 2>>}

\* time.monotonic() when the client is made
StartTime == 1

ModelErrors == {<<"t", "i", "m", "e", "o", "u", "t">>, <<"4", "2", "9">>}

ModelResults == {Message(<<" ", "o", "k", "\n">>), MessageOfParts(<<<<"o">>, <<"k", " ">>>>), MessageOfNone, Plain(<<"<", "o", "k", ">">>)}

ModelOutcomes == {Returns(result) : result \in ModelResults} \cup {Raises(e) : e \in ModelErrors}

StreamOutcomes == {[chunks |-> <<<<"o">>, <<>>, <<"k">>>>, e |-> NoneText], [chunks |-> <<<<"o">>>>, e |-> <<"4", "2", "9">>], [chunks |-> <<>>, e |-> <<"t", "i", "m", "e", "o", "u", "t">>]}

InitClient ==
    /\ store = EmptyStore
    /\ inserted = {}
    /\ last_call = NoCall
    /\ ops = 0
    /\ find_in = NoFind
    /\ find_scores = <<>>
    /\ find_out = <<>>
    /\ repo = <<>>
    /\ pending = {}
    /\ diff_in = NoDiff
    /\ diff_out = <<>>
    /\ AsmIdle
    /\ ParseIdle
    /\ AstIdle
    /\ ExtractIdle
    /\ PipeIdle
    /\ now = StartTime
    /\ \E max_retries \in 0..DefaultMaxRetries, timing \in Timings :
           client = LangChainChatClient(max_retries, timing[1], timing[2])
    /\ tasks = [t \in Tasks |-> NewTask]
    /\ requests = <<>>

ClientFrame == UNCHANGED <<storeVars, findVars, buildVars, diffVars, asmVars, parseVars, pipeVars, extractVars, astVars>>

\* complete up to its first await (lines 85-90), or to its end when
\* max_retries is 0 (line 103)
Complete(t) ==
    /\ tasks[t].pc = "idle"
    /\ WaitUntil(client, now) <= MaxTime
    /\ now' = WaitUntil(client, now)
    /\ client' = _wait_rate_limit(client, now)
    /\ IF client.max_retries = 0
       THEN /\ tasks' = [tasks EXCEPT ![t] = ReturnText([@ EXCEPT !.method = "complete"], <<>>)]
            /\ UNCHANGED requests
       ELSE /\ tasks' = [tasks EXCEPT ![t] = [@ EXCEPT !.pc = "awaiting", !.method = "complete"]]
            /\ requests' = Append(requests, Request(t, 0, now'))
    /\ ClientFrame

\* the model answers the attempt in flight: lines 93-98 or lines 99-102
AInvoke(t, outcome) ==
    /\ tasks[t].pc = "awaiting"
    /\ tasks' = [tasks EXCEPT ![t] =
           IF outcome.ok THEN ReturnText(Ended(@, outcome), ResultText(outcome.value))
           ELSE ExceptBranch(client, Ended(@, outcome), outcome.e, now)]
    /\ UNCHANGED <<now, client, requests>>
    /\ ClientFrame

\* asyncio.sleep is over: the loop of line 87 goes round and sends again
Wake(t) ==
    /\ tasks[t].pc = "sleeping"
    /\ now >= tasks[t].wake_at
    /\ tasks' = [tasks EXCEPT ![t] = [@ EXCEPT !.pc = "awaiting", !.attempt = @ + 1]]
    /\ requests' = Append(requests, Request(t, tasks[t].attempt + 1, now))
    /\ UNCHANGED <<now, client>>
    /\ ClientFrame

\* complete_stream up to its first await (lines 113-117)
CompleteStream(t) ==
    /\ tasks[t].pc = "idle"
    /\ WaitUntil(client, now) <= MaxTime
    /\ now' = WaitUntil(client, now)
    /\ client' = _wait_rate_limit(client, now)
    /\ tasks' = [tasks EXCEPT ![t] = [@ EXCEPT !.pc = "streaming", !.method = "complete_stream"]]
    /\ requests' = Append(requests, Request(t, 0, now'))
    /\ ClientFrame

\* the stream runs to its end or to its error (lines 117-133)
AStream(t, outcome) ==
    /\ tasks[t].pc = "streaming"
    /\ tasks' = [tasks EXCEPT ![t] = [@ EXCEPT !.pc = "returned", !.yielded = Yielded(outcome.chunks, outcome.e)]]
    /\ UNCHANGED <<now, client, requests>>
    /\ ClientFrame

\* time passes
Tick ==
    /\ now < MaxTime
    /\ now' = now + 1
    /\ UNCHANGED <<client, tasks, requests>>
    /\ ClientFrame

NextClient ==
    \/ \E t \in Tasks : Complete(t)
    \/ \E t \in Tasks, outcome \in ModelOutcomes : AInvoke(t, outcome)
    \/ \E t \in Tasks : Wake(t)
    \/ \E t \in Tasks : CompleteStream(t)
    \/ \E t \in Tasks, outcome \in StreamOutcomes : AStream(t, outcome)
    \/ Tick

SpecClient == InitClient /\ [][NextClient]_vars

(***************************************************************************)
(* SpecExtract: PythonSymbolExtractor.extract applied to the tree of one   *)
(* file: assignments, functions and classes, nested in one another.        *)
(***************************************************************************)
\* def foo(): x = 1   and   def foo(x): bar()
ExtractFunctionDefs ==
    {FunctionDef(FOO, <<>>),
     FunctionDef(FOO, <<>>) @@ [body |-> <<Assign(<<Name(X)>>)>>],
     FunctionDef(FOO, <<BAR>>) @@ [args |-> [NoArgs EXCEPT !.args = <<X>>]],
     FunctionDef(BAR, <<>>) @@ [body |-> <<ClassDef(KLASS, <<>>, <<Assign(<<Name(X)>>)>>)>>],
     FunctionDef(BAR, <<>>) @@ [body |-> <<FunctionDef(FOO, <<>>)>>]}

ExtractStmts ==
    ExtractFunctionDefs
    \cup {Assign(<<Name(X)>>), Assign(<<Name(FOO)>>), Assign(<<Subscript, Name(X), Name(BAR)>>)}
    \cup {ClassDef(KLASS, <<>>, body) :
            body \in {<<Assign(<<Name(X)>>)>>,
                      <<FunctionDef(FOO, <<>>) @@ [body |-> <<Assign(<<Name(X)>>)>>]>>}}

ExtractTrees == SeqsBetween(ExtractStmts, 0, MaxDefs)

InitExtract ==
    /\ store = EmptyStore
    /\ inserted = {}
    /\ last_call = NoCall
    /\ ops = 0
    /\ find_in = NoFind
    /\ find_scores = <<>>
    /\ find_out = <<>>
    /\ repo = <<>>
    /\ pending = {}
    /\ diff_in = NoDiff
    /\ diff_out = <<>>
    /\ AsmIdle
    /\ ParseIdle
    /\ ClientIdle
    /\ PipeIdle
    /\ ExtractIdle
    /\ AstIdle

Extract(tree) ==
    /\ ex_in.calls < 1
    /\ ex_in' = [tree |-> tree, calls |-> 1]
    /\ ex_out' = extract(tree)
    /\ UNCHANGED <<storeVars, findVars, buildVars, diffVars, asmVars, parseVars, pipeVars, clientVars, astVars>>

NextExtract ==
    /\ ex_in.calls < 1
    /\ \E tree \in ExtractTrees : Extract(tree)

SpecExtract == InitExtract /\ [][NextExtract]_vars

(***************************************************************************)
(* Claims about RelevantContextFinder.find (SpecFind).                     *)
(***************************************************************************)
FindReturned == find_in.calls > 0

\* C1: for max_nodes_per_unit >= 0, find returns at most max_nodes_per_unit
\* node ids, whatever the store and the seeds (known or unknown).
C1_RetrievalBudget ==
    (FindReturned /\ find_in.max_nodes_per_unit >= 0)
        => Len(find_out) <= find_in.max_nodes_per_unit

\* a call whose cap cut scored nodes off
C1_Witness ==
    /\ FindReturned
    /\ find_in.max_nodes_per_unit >= 1
    /\ Len(find_out) = find_in.max_nodes_per_unit
    /\ Cardinality(DOMAIN find_scores) > find_in.max_nodes_per_unit
    /\ GhostId \in Range(find_in.seeds)

\* C2: when max_nodes_per_unit is at least the number of seeds, every seed
\* that is a node of the store is in the returned list.
C2_SeedsReturned ==
    (FindReturned /\ find_in.max_nodes_per_unit >= Len(find_in.seeds))
        => \A s \in Range(find_in.seeds) :
              has_node(store, s) => s \in Range(find_out)

\* C3: a non-seed node joined to the single seed by edges of two different
\* types (seed -> n and n -> seed) ends the BFS with the sum of both weights
\* (both at depth 0, so each weight is divided by 1).
C3_ScoreAccumulates ==
    FindReturned =>
        \A s \in NodeIds, n \in NodeIds :
            ( /\ find_in.seeds = <<s>>
              /\ n # s
              /\ <<s, n>> \in DOMAIN store.etype
              /\ <<n, s>> \in DOMAIN store.etype
              /\ store.etype[<<s, n>>] # store.etype[<<n, s>>] )
            => find_scores[n] = _default_weights[store.etype[<<s, n>>]]
                                + _default_weights[store.etype[<<n, s>>]]

\* The scenario of C4: find called with the default cap and the single seed
\* s, a function node whose only edges are a Tests edge from T and a Calls
\* edge to C, with no edge between T and C.
C4_Scenario(s, T, C) ==
    /\ FindReturned
    /\ find_in.seeds = <<s>>
    /\ find_in.max_nodes_per_unit = DefaultMaxNodes
    /\ get_node(store, s).kind = "function"
    /\ Cardinality({s, T, C}) = 3
    /\ {e \in DOMAIN store.etype : s \in {e[1], e[2]}} = {<<T, s>>, <<s, C>>}
    /\ store.etype[<<T, s>>] = "TESTS"
    /\ store.etype[<<s, C>>] = "CALLS"
    /\ <<T, C>> \notin DOMAIN store.etype
    /\ <<C, T>> \notin DOMAIN store.etype

C4_Listed(s, T, C) ==
    /\ {s, T, C} \subseteq Range(find_out)
    /\ IndexOf(find_out, T) < IndexOf(find_out, C)

HasTestBonus(id) ==
    get_node(store, id).kind = "test" \/ get_node(store, id).is_test_file

\* C4 as stated: in the scenario the result holds s, T and C, T before C.
C4_TestBeforeCallee ==
    \A s \in NodeIds, T \in NodeIds, C \in NodeIds :
        C4_Scenario(s, T, C) => C4_Listed(s, T, C)

\* C4 amended: in the scenario, when C is not a test node (kind test or
\* is_test_file) unless T is one too, the result holds s, T and C, T before C.
C4_TestBeforeCalleeAmended ==
    \A s \in NodeIds, T \in NodeIds, C \in NodeIds :
        (C4_Scenario(s, T, C) /\ (HasTestBonus(C) => HasTestBonus(T)))
            => C4_Listed(s, T, C)

C4_Witness ==
    \E s \in NodeIds, T \in NodeIds, C \in NodeIds :
        /\ C4_Scenario(s, T, C)
        /\ HasTestBonus(C) /\ HasTestBonus(T)
        /\ find_out = <<s, T, C>>

\* C5: a run of find returns what every run on the same store and the same
\* seed sequence returns, whatever order the run's set of seeds iterates in.
C5_Deterministic ==
    FindReturned =>
        \A seed_order \in Orderings(Range(find_in.seeds)) :
            find_out = find(store, RetrievalConfig(find_in.max_nodes_per_unit),
                            find_in.seeds, seed_order)

(***************************************************************************)
(* Claims about GraphStore (SpecStore).                                    *)
(***************************************************************************)
EdgeEndpointsPresent ==
    \A e \in DOMAIN store.etype : has_node(store, e[1]) /\ has_node(store, e[2])

\* an add_edge step whose source or destination is no node of the store
DroppedEdgeStep ==
    /\ ops' = ops + 1
    /\ last_call'.op = "add_edge"
    /\ ~(has_node(store, last_call'.src) /\ has_node(store, last_call'.dst))

\* C6: every edge of the store has both endpoints among the store's nodes,
\* and an add_edge with a missing endpoint leaves the store as it was.
C6_EdgeSoundness ==
    /\ []EdgeEndpointsPresent
    /\ [][DroppedEdgeStep => store' = store]_vars

\* an edge was stored, and the last call was an add_edge that was dropped
C6_Witness ==
    /\ last_call.op = "add_edge"
    /\ ~(has_node(store, last_call.src) /\ has_node(store, last_call.dst))
    /\ Len(store.adj) > 0

\* C7: every edge (src, dst, t) add_edge accepted is still there under its
\* type: dst among neighbors_out(src, t) and src among neighbors_in(dst, t).
C7_Multigraph ==
    \A e \in inserted :
        /\ e[2] \in Range(neighbors_out(store, e[1], e[3]))
        /\ e[1] \in Range(neighbors_in(store, e[2], e[3]))

(***************************************************************************)
(* Claims about PythonGraphBuilder (SpecBuild).                            *)
(***************************************************************************)
HasEdge(st, src, dst, t) == <<src, dst>> \in DOMAIN st.etype /\ st.etype[<<src, dst>>] = t

ImportsFromFoo(tree) ==
    \E i \in 1..Len(tree) : tree[i].type = "ImportFrom" /\ tree[i].module = FOO

\* C8: after build over foo.py and a test_foo.py that imports from foo, the
\* test_foo module node is flagged is_test_file and has foo among its
\* neighbors_out of type TESTS, whichever file was visited first.
C8_TestsEdge ==
    (Built /\ ImportsFromFoo(repo[TEST_FOO_PY]))
        => /\ has_node(store, TEST_FOO)
           /\ get_node(store, TEST_FOO).is_test_file
           /\ FOO \in Range(neighbors_out(store, TEST_FOO, "TESTS"))

\* the names of the functions defined at the top level of a tree
TopLevelFunctions(tree) ==
    {tree[i].name : i \in {j \in 1..Len(tree) : tree[j].type = "FunctionDef"}}

\* the Calls edges a definition owes: one to every top-level function of the
\* file that its body calls by name
CallsEdgesPresent(file_path, tree, d, nid) ==
    \A g \in Range(d.calls) \cap TopLevelFunctions(tree) :
        HasEdge(store, nid, _node_id(file_path, g, "function", NoParent), "CALLS")

\* C9: after build, every function or method f that calls by simple name a
\* function g defined in the same file has a Calls edge f -> g, whether g is
\* defined before or after f.
C9_CallsEdges ==
    Built =>
        \A file_path \in DOMAIN repo :
            LET tree == repo[file_path]
            IN  \A i \in 1..Len(tree) :
                    /\ tree[i].type = "FunctionDef" =>
                          CallsEdgesPresent(file_path, tree, tree[i],
                              _node_id(file_path, tree[i].name, "function", NoParent))
                    /\ tree[i].type = "ClassDef" =>
                          \A m \in Range(tree[i].body) :
                              CallsEdgesPresent(file_path, tree, m,
                                  _node_id(file_path, m.name, "method", tree[i].name))

\* the definitions of a tree that become function or method nodes, each with
\* the ID of its node
NodeDefinitions(file_path, tree) ==
    {<<_node_id(file_path, tree[i].name, "function", NoParent), tree[i]>> :
        i \in {j \in 1..Len(tree) : tree[j].type = "FunctionDef"}}
    \cup UNION {{<<_node_id(file_path, m.name, "method", tree[i].name), m>> :
                    m \in {b \in Range(tree[i].body) : b.type = "FunctionDef"}} :
                i \in {j \in 1..Len(tree) : tree[j].type = "ClassDef"}}

\* C29: after build, every Calls edge out of a function or method node leads
\* to a name called in a definition of that very node, also when the file
\* holds another definition of the same name.
C29_OwnCallSites ==
    Built =>
        \A file_path \in DOMAIN repo :
            \A nd \in NodeDefinitions(file_path, repo[file_path]) :
                \A dst \in Range(neighbors_out(store, nd[1], "CALLS")) :
                    \E own \in NodeDefinitions(file_path, repo[file_path]) :
                        /\ own[1] = nd[1]
                        /\ \E c \in Range(_CallVisitor(own[2])) :
                               dst = file_path \o <<":", ":">> \o c

(***************************************************************************)
(* Claims about PythonSemanticDiffer (SpecDiff).                           *)
(***************************************************************************)
\* C10: diff(file, R, R) is the empty list, also when records of R share
\* their (name, kind, parent_class) key.
C10_DiffIdentity ==
    (diff_in.calls > 0 /\ diff_in.base = diff_in.head) => diff_out = <<>>

\* R holds two different records under one key
C10_Witness ==
    /\ diff_in.calls > 0
    /\ diff_in.base = diff_in.head
    /\ Len(diff_in.base) = 2
    /\ _symbol_key(diff_in.base[1]) = _symbol_key(diff_in.base[2])
    /\ diff_in.base[1] # diff_in.base[2]
    /\ diff_out = <<>>

UniqueKeys(symbols) ==
    \A i, j \in 1..Len(symbols) :
        _symbol_key(symbols[i]) = _symbol_key(symbols[j]) => i = j

KeyAbsent(symbols, s) ==
    \A i \in 1..Len(symbols) : _symbol_key(symbols[i]) # _symbol_key(s)

\* the descriptors of a pair of records, as the fields that differ among
\* signature, docstring, decorators, in that order
DiffFields(b, h) ==
    LET differs(d) == \/ d = "signature_change" /\ b.signature # h.signature
                      \/ d = "docstring_change" /\ b.docstring # h.docstring
                      \/ d = "decorator_change" /\ b.decorators # h.decorators
    IN  SelectSeq(<<"signature_change", "docstring_change", "decorator_change">>, differs)

\* what a head record contributes when keys are unique
ExpectedOfHead(base, h) ==
    IF KeyAbsent(base, h)
    THEN <<SymbolChange("f.py", h, "added", <<"added">>)>>
    ELSE LET b == base[CHOOSE i \in 1..Len(base) : _symbol_key(base[i]) = _symbol_key(h)]
         IN  IF DiffFields(b, h) = <<>> THEN <<>>
             ELSE <<SymbolChange("f.py", h, "modified", DiffFields(b, h))>>

ExpectedOfBase(head, b) ==
    IF KeyAbsent(head, b) THEN <<SymbolChange("f.py", b, "removed", <<"removed">>)>>
    ELSE <<>>

\* C11: for base and head with unique keys diff returns, in head order, an
\* added change for each head record whose key is new and a modified change
\* (descriptors in the order signature, docstring, decorator) for each head
\* record that differs from its base record, then in base order a removed
\* change for each base record whose key is gone.
C11_DiffSequence ==
    (diff_in.calls > 0 /\ UniqueKeys(diff_in.base) /\ UniqueKeys(diff_in.head))
        => diff_out =
              Flatten([i \in 1..Len(diff_in.head) |->
                          ExpectedOfHead(diff_in.base, diff_in.head[i])])
              \o Flatten([i \in 1..Len(diff_in.base) |->
                          ExpectedOfBase(diff_in.head, diff_in.base[i])])

\* a modified record with two descriptors, an added one, then a removed one
C11_Witness ==
    /\ diff_in.calls > 0
    /\ UniqueKeys(diff_in.base) /\ UniqueKeys(diff_in.head)
    /\ Len(diff_out) = 3
    /\ diff_out[1].change_type = "modified"
    /\ diff_out[1].descriptors = <<"signature_change", "docstring_change">>
    /\ diff_out[2].change_type = "added"
    /\ diff_out[3].change_type = "removed"

(***************************************************************************)
(* Claims about ContextAssembler (SpecAsm).                                *)
(***************************************************************************)
RECURSIVE SumTokens(_, _)
SumTokens(snippet_of, ids) ==
    IF ids = <<>> THEN 0
    ELSE _estimate_tokens(snippet_of[Head(ids)]) + SumTokens(snippet_of, Tail(ids))

\* C12: the token estimates of the snippets of the context node ids kept in
\* the returned ReviewUnit add up to at most max_tokens_per_unit.
C12_AssemblerBudget ==
    asm_in.calls > 0
        => SumTokens(asm_in.snippet_of, asm_out.context_node_ids) <= asm_in.max_tokens

\* the stop rule fired after a node was kept, with a before snippet counted
C12_Witness ==
    /\ asm_in.calls > 0
    /\ asm_out.before_snippet # <<>>
    /\ Len(asm_out.context_node_ids) = 1
    /\ Len(asm_in.context_node_ids) = 2
    /\ \A i \in 1..2 : /\ asm_in.context_node_ids[i] # GhostId
                       /\ ~IsBlank(asm_in.snippet_of[asm_in.context_node_ids[i]])

(***************************************************************************)
(* Claims about _parse_findings_from_response (SpecParse).                 *)
(***************************************************************************)
\* C13: for every non-empty response text, whitespace-only and shorter than
\* 10 characters included, the parser returns at least one finding.
C13_AtLeastOneFinding ==
    (parse_in.calls > 0 /\ parse_in.response # <<>>) => Len(parse_out) >= 1

(***************************************************************************)
(* Claims about run_pipeline (SpecPipe).                                   *)
(***************************************************************************)
PipeOver == pl.pc \in {"returned", "raised"}

\* C14: whatever path run_pipeline takes, what it returns has the five
\* components summary, findings, status, unit_reviews, combined_review.
C14_FiveComponents ==
    pl.pc = "returned" => Len(pl.result) = 5

\* C15: when get_file_changes or the checkout raises, run_pipeline returns
\* (does not raise) status failed, no findings and the summary that begins
\* with the stage's message, having built no graph and called no LLM.
C15_FailFast ==
    /\ (pl.pc # "idle" /\ pl.provider_raised = "get_file_changes") =>
          /\ pl.pc = "returned"
          /\ pl.result[3] = "failed" /\ pl.result[2] = <<>>
          /\ StartsWith(pl.result[1], FAILED_FILE_CHANGES)
          /\ ~pl.graph_built /\ pl.llm_calls = <<>>
    /\ (pl.pc # "idle" /\ pl.provider_raised = "checkout") =>
          /\ pl.pc = "returned"
          /\ pl.result[3] = "failed" /\ pl.result[2] = <<>>
          /\ StartsWith(pl.result[1], FAILED_CHECKOUT)
          /\ ~pl.graph_built /\ pl.llm_calls = <<>>

\* the checkout raised after file changes were found
C15_Witness ==
    /\ pl.pc = "returned"
    /\ pl.provider_raised = "checkout"
    /\ pl.file_changes # <<>>
    /\ pl.result[1] = FAILED_CHECKOUT \o <<"b", "o", "o", "m">>

\* C16: a run in which neither get_file_changes nor the checkout raised ends
\* by returning status completed, whatever the mode and the LLM outcome.
C16_CompletedUnlessFailFast ==
    (pl.pc # "idle" /\ PipeOver /\ pl.provider_raised = None)
        => pl.pc = "returned" /\ pl.result[3] = "completed"

\* C17: a per_unit run with symbol changes ends having made exactly one
\* per-unit LLM call per symbol change of the limited list and no batched
\* call, and returns completed with summary = combined_review, or
\* "No review output." when that is empty.
C17_PerUnit ==
    (pl.pc # "idle" /\ PipeOver /\ pl.mode = PER_UNIT) =>
        /\ pl.pc = "returned"
        /\ pl.llm_calls = [i \in 1..Len(pl.symbol_changes) |-> [kind |-> "unit", index |-> i]]
        /\ pl.result[3] = "completed"
        /\ pl.result[1] = (IF pl.combined_review \in {NoneText, <<>>}
                           THEN NO_REVIEW_OUTPUT ELSE pl.combined_review)

\* C18: a run in mode both ends having made the per-unit calls in the order
\* of the limited symbol-change list and then, last, the one batched call.
C18_UnitsThenBatched ==
    (pl.pc # "idle" /\ PipeOver /\ pl.mode = BOTH) =>
        pl.llm_calls = [i \in 1..Len(pl.symbol_changes) |-> [kind |-> "unit", index |-> i]]
                       \o <<[kind |-> "batched"]>>

(***************************************************************************)
(* Claims about LangChainChatClient (SpecClient).                          *)
(***************************************************************************)
\* the requests task t sent, in order
RequestsOf(t) == SelectSeq(requests, LAMBDA r : r.task = t)

\* C19: for max_retries >= 1, complete never lets an error of the model
\* out: it sends at most max_retries requests, only the last attempt made
\* can have succeeded and then its text (stripped, as line 97 returns it) is
\* the result, the k-th failure is followed by a sleep of retry_delay * k
\* before the next request, and when all max_retries attempts failed the
\* result is "[LLM error: " + the last error's message + "]".
C19_RetryPolicy ==
    client.max_retries >= 1 =>
        \A t \in {u \in DOMAIN tasks : tasks[u].method = "complete"} :
            LET task == tasks[t]
                n == Len(task.outcomes)
                sent == RequestsOf(t)
            IN  /\ task.pc \in {"awaiting", "sleeping", "returned"}
                /\ Len(sent) <= client.max_retries
                /\ n = IF task.pc = "awaiting" THEN Len(sent) - 1 ELSE Len(sent)
                /\ \A i \in 1..(n - 1) : ~task.outcomes[i].ok
                /\ Len(task.slept) = IF task.pc = "sleeping" THEN Len(sent) ELSE Len(sent) - 1
                /\ \A k \in 1..Len(task.slept) : task.slept[k] = client.retry_delay * k
                /\ \A k \in 2..Len(sent) : sent[k].at >= sent[k - 1].at + client.retry_delay * (k - 1)
                /\ task.pc = "sleeping" => ~task.outcomes[n].ok /\ n < client.max_retries
                /\ task.pc = "returned" =>
                      IF task.outcomes[n].ok
                      THEN task.result = ResultText(task.outcomes[n].value)
                      ELSE n = client.max_retries /\ task.result = LLMError(task.outcomes[n].e)

\* three attempts failed, the first and the last with different errors
C19_Witness ==
    \E t \in DOMAIN tasks :
        /\ tasks[t].method = "complete" /\ tasks[t].pc = "returned"
        /\ client.max_retries = 3
        /\ Len(tasks[t].outcomes) = 3
        /\ ~tasks[t].outcomes[3].ok
        /\ tasks[t].outcomes[1].e # tasks[t].outcomes[3].e

\* C20: whatever the interleaving of the tasks' complete and complete_stream
\* calls, any two requests sent to the model, first attempts and retries
\* alike, start at least min_interval apart.
C20_RateLimitSpacing ==
    \A i, j \in 1..Len(requests) :
        i < j => requests[j].at - requests[i].at >= client._min_interval

(***************************************************************************)
(* Claims about PythonSymbolExtractor (SpecExtract).                       *)
(***************************************************************************)
\* the names that are targets of the assignments at the top level of a tree
TopLevelTargets(tree) ==
    UNION {{tree[i].targets[k].id : k \in {n \in 1..Len(tree[i].targets) : tree[i].targets[n].type = "Name"}} :
              i \in {j \in 1..Len(tree) : tree[j].type = "Assign"}}

\* C28: extract emits a Constant record only for an assignment at the top
\* level of the module, to a Name no earlier record carries; an assignment
\* inside a function body or a class body yields no Constant record.
C28_TopLevelConstants ==
    ex_in.calls > 0 =>
        \A i \in 1..Len(ex_out) :
            ex_out[i].kind = "constant" =>
                /\ ex_out[i].name \in TopLevelTargets(ex_in.tree)
                /\ \A j \in 1..(i - 1) : ex_out[j].name # ex_out[i].name

(***************************************************************************)
(* Claims about run_ast_diff inside run_pipeline (SpecAstDiff).            *)
(***************************************************************************)
\* the diff provider and the checkout have answered and run_ast_diff has run
AstDiffDone == pl.pc \notin {"idle", "get_file_changes", "checkout", "ast_diff"} /\ pl.provider_raised = None

\* C21: when the base and the head worktree hold the same files, run_ast_diff
\* returns no symbol change whatever file changes the provider emitted, and
\* run_pipeline returns with status completed.
C21_IdenticalWorktrees ==
    (AstDiffDone /\ worktrees.base = worktrees.head) =>
        /\ run_ast_diff(pl.file_changes, worktrees.base, worktrees.head) = <<>>
        /\ pl.symbol_changes = <<>>
        /\ pl.pc = "returned"
        /\ pl.result[3] = "completed"

\* the symbols of foo.py on one side
SideSymbols(worktree) ==
    IF FOO_PY \in DOMAIN worktree /\ worktree[FOO_PY].parses
    THEN extract(worktree[FOO_PY].tree) ELSE <<>>

\* a record without its line range
Unplaced(sym) == [sym EXCEPT !.line_start = 0, !.line_end = 0]

\* foo.py parses on both sides and its two versions differ, but their
\* symbols agree in everything except the line range
BodyEditOnly ==
    /\ SideSymbols(worktrees.base) # <<>>
    /\ SideSymbols(worktrees.head) # <<>>
    /\ worktrees.base[FOO_PY].tree # worktrees.head[FOO_PY].tree
    /\ MapSeq(SideSymbols(worktrees.base), Unplaced) = MapSeq(SideSymbols(worktrees.head), Unplaced)

\* the provider reported files, all of them as modified
OnlyModified ==
    /\ pl.file_changes # <<>>
    /\ \A i \in 1..Len(pl.file_changes) : pl.file_changes[i].change_type = "modified"

MethodNodes(change) ==
    {nd[1] : nd \in {d \in NodeDefinitions(change.file_path, repo[change.file_path]) :
                        /\ d[2].name = change.symbol_name
                        /\ get_node(store, d[1]) # NoNode
                        /\ get_node(store, d[1]).kind = "method"}}

\* C26: once the head graph is built, an added or modified method that is a
\* node of the graph is mapped by _symbol_change_to_node_id to the ID of a
\* node of the store.
C26_MethodSeedKnown ==
    pl.graph_built =>
        \A i \in 1..Len(pl.symbol_changes) :
            LET change == pl.symbol_changes[i]
            IN  (/\ change.kind = "method"
                 /\ change.change_type \in {"added", "modified"}
                 /\ MethodNodes(change) # {})
                    => has_node(store, _symbol_change_to_node_id(store, change))

\* text.split("\n")
RECURSIVE SplitLines(_)
SplitLines(text) ==
    IF "\n" \notin Range(text) THEN <<text>>
    ELSE <<SplitHead(text, "\n")>> \o SplitLines(SubSeq(text, IndexOf(text, "\n") + 1, Len(text)))

\* the lines of the digest handed to the batched LLM call
DigestLines ==
    LET batched == SelectSeq(pl.llm_calls, LAMBDA call : call.kind = "batched")
    IN  IF batched = <<>> \/ batched[1].import_graph = NO_IMPORT_EDGES THEN <<>>
        ELSE SplitLines(batched[1].import_graph)

ModuleFiles == {get_node(store, id).file_path : id \in {n \in Range(all_node_ids(store)) : IsModule(store, n)}}

\* C27: every line of the import digest reads "- A imports B" for two
\* distinct module files A and B, one of them a changed file; no line occurs
\* twice and there are at most 30 lines.
C27_ImportDigest ==
    /\ Len(DigestLines) <= MaxImportLines
    /\ \A i \in 1..Len(DigestLines) :
           /\ \A j \in 1..(i - 1) : DigestLines[j] # DigestLines[i]
           /\ \E A \in ModuleFiles, B \in ModuleFiles :
                  /\ DigestLines[i] = ImportLine(<<A, B>>)
                  /\ A # B
                  /\ A \in changed_files(pl) \/ B \in changed_files(pl)

\* the run got its client from get_llm_client in degraded mode
Degraded == pl.llm.kind \in {"_NoOpClient", "LocalModelClient"}

\* C22: in degraded mode the batched call returns the fixed diagnostic
\* string, and the run returns status completed with an empty findings list.
C22_DegradedReview ==
    (Degraded /\ pl.llm_calls # <<>> /\ pl.pc = "returned") =>
        /\ pl.summary \in {pl.llm._error, LOCAL_NOT_IMPLEMENTED}
        /\ pl.result[3] = "completed"
        /\ pl.result[2] = <<>>

Adjacent(a, b, types) ==
    \E t \in types : HasEdge(store, a, b, t) \/ HasEdge(store, b, a, t)

\* the seeds find expands: those that are nodes of the store
KnownSeeds == {sd \in Range(find_in.seeds) : has_node(store, sd)}

Eligible ==
    SelectSeq(asm_in.context_node_ids,
              LAMBDA nid : has_node(store, nid) /\ ~IsBlank(asm_in.snippet_of[nid]))

\* the tokens of the two snippets of the change itself
SideTokens ==
    (IF asm_out.before_snippet # <<>> THEN _estimate_tokens(asm_out.before_snippet) ELSE 0)
    + (IF asm_out.after_snippet # <<>> THEN _estimate_tokens(asm_out.after_snippet) ELSE 0)

\* C25: the retained ids are a prefix of the eligible context ids (unknown
\* nodes and blank snippets cost nothing), in input order: the prefix ends
\* before the first node with which the before snippet, the after snippet
\* and the retained snippets together would exceed max_tokens_per_unit, and
\* no later node is retained, whether it would fit or not.
C25_PrefixKept ==
    asm_in.calls > 0 =>
        \E k \in 0..Len(Eligible) :
            /\ asm_out.context_node_ids = SubSeq(Eligible, 1, k)
            /\ \A j \in 1..k :
                   SideTokens + SumTokens(asm_in.snippet_of, SubSeq(Eligible, 1, j)) <= asm_in.max_tokens
            /\ k < Len(Eligible) =>
                   SideTokens + SumTokens(asm_in.snippet_of, SubSeq(Eligible, 1, k + 1)) > asm_in.max_tokens

\* the traversal stopped at a node that did not fit although a later,
\* smaller node would have
C25_Witness ==
    /\ asm_in.calls > 0
    /\ Len(asm_out.context_node_ids) + 1 < Len(Eligible)
    /\ \E j \in (Len(asm_out.context_node_ids) + 2)..Len(Eligible) :
           SideTokens + SumTokens(asm_in.snippet_of, asm_out.context_node_ids)
               + _estimate_tokens(asm_in.snippet_of[Eligible[j]]) <= asm_in.max_tokens

====
